---- MODULE Spec2Model ----
(***************************************************************************)
(* A model of dnspython's wire-format message builder, dns.renderer, as a  *)
(* state machine.  The state is the fields of one Renderer object (the     *)
(* output buffer with its write cursor, the compression table, the current *)
(* section, the section counts, max_size, reserved, was_padded, id, flags) *)
(* and every public method is one action.  Each method is first written as *)
(* an operator from a Renderer record to a result [self, exc]: the         *)
(* Renderer after the call and the exception the call raised ("None" when  *)
(* it returned).                                                           *)
(***************************************************************************)
EXTENDS Integers, Sequences, FiniteSets, TLC

(***************************************************************************)
(* Bounds of the model.                                                    *)
(***************************************************************************)
\* Content is only added while the buffer is shorter than this.
MaxOutput == 33
\* The largest number of rdatas in an rrset handed to add_rrset/add_rdataset.
MaxRdatas == 2
\* The largest padding block size handed to add_opt.
MaxPad == 8
\* The largest number of questions callers put in one message.
MaxQuestions == 1
\* The largest number of calls that raise out of the middle of a write.
MaxFaults == 1
\* The step by which callers reserve space.
ReserveChunk == 36

\* The largest number of messages in one signed stream.
MaxMessages == 2

\* The items put in Sets are 1..MaxItem.
MaxItem == 2

\* The widest Serial, in bits.
MaxBits == 4
\* The objects of an @immutable class.
MaxObjects == 2
\* The wrapped initializers that may be running at once.
MaxDepth == 2

(***************************************************************************)
(* Program constants.                                                      *)
(***************************************************************************)
DEFAULT_EDNS_PAYLOAD == 1232
QUESTION == 0
ANSWER == 1
AUTHORITY == 2
ADDITIONAL == 3
\* The fixed size of the DNS header that __init__ writes as zeros.
HeaderLen == 12

Sections == {QUESTION, ANSWER, AUTHORITY, ADDITIONAL}

VARIABLES
    output,      \* self.output: the bytes of the io.BytesIO
    cursor,      \* self.output.tell(): the write position of the io.BytesIO
    compress,    \* self.compress: name -> offset
    section,     \* self.section
    counts,      \* self.counts, indexed 0..3
    max_size,    \* self.max_size
    reserved,    \* self.reserved
    was_padded,  \* self.was_padded
    id,          \* self.id
    flags,       \* self.flags
    ctx,         \* the caller's multi-message TSIG continuation context
    last,        \* the most recent call: [op, arg, exc], see Apply
    created,     \* the max_size the Renderer was created with
    written,     \* records the codec reported written by calls that returned
    hdr_written, \* write_header() has been called
    tsig_done,   \* an add_tsig/add_multi_tsig call has returned
    faults,      \* calls that raised out of the middle of a write
    messages,    \* Renderers the caller has created so far, this one included
    heap,        \* the Set objects x, y, z and their dicts, see dns.set.Set below
    slast,       \* the most recent Set call: [op, self, other, exc, ret]
    sa,          \* a Serial: [value, bits]
    sb,          \* another Serial
    sres,        \* the most recent Serial comparison: [op, ret]
    attrs,       \* the attribute of each object of an @immutable class
    _in__init__, \* the context variable _in__init__
    calls,       \* the wrapped initializers running, innermost last
    ilast,       \* the most recent step on an immutable object: [op, obj, exc]
    ctxvars,     \* the value of _in__init__ in each execution context
    ctxcalls,    \* the wrapped initializers running in each execution context
    answer,      \* the dns.resolver.Answer given to _extract_nameservers_from_svcb
    infos        \* what _extract_nameservers_from_svcb returned for it

vars == <<output, cursor, compress, section, counts, max_size, reserved,
          was_padded, id, flags, ctx, last, created, written, hdr_written,
          tsig_done, faults, messages, heap, slast, sa, sb, sres, attrs,
          _in__init__, calls, ilast, ctxvars, ctxcalls, answer, infos>>

RendererVars == <<output, cursor, compress, section, counts, max_size,
                  reserved, was_padded, id, flags, ctx, last, created,
                  written, hdr_written, tsig_done, faults, messages>>
SetVars == <<heap, slast>>
SerialVars == <<sa, sb, sres>>
ContextVars == <<ctxvars, ctxcalls>>
ImmutableVars == <<attrs, _in__init__, calls, ilast, ctxvars, ctxcalls>>
DdrVars == <<answer, infos>>

\* No Set object and no Serial exists.
NoSets ==
    /\ heap = [items |-> <<>>, dicts |-> <<>>]
    /\ slast = [op |-> "none"]
NoSerials ==
    /\ sa = [value |-> 0, bits |-> 0]
    /\ sb = [value |-> 0, bits |-> 0]
    /\ sres = [op |-> "none"]
\* The default of the context variable _in__init__ (False): no object.
NotInInit == 0

\* No object of an @immutable class exists.
NoImmutables ==
    /\ attrs = <<>>
    /\ _in__init__ = NotInInit
    /\ calls = <<>>
    /\ ilast = [op |-> "none"]
    /\ ctxvars = <<>>
    /\ ctxcalls = <<>>

\* No answer has been given to _extract_nameservers_from_svcb.
NoDdr ==
    /\ answer = <<>>
    /\ infos = <<>>

\* The Renderer object as one record.
Self ==
    [output |-> output, cursor |-> cursor, compress |-> compress,
     section |-> section, counts |-> counts, max_size |-> max_size,
     reserved |-> reserved, was_padded |-> was_padded, id |-> id,
     flags |-> flags]

Ok(self) == [self |-> self, exc |-> "None", n |-> 0]
Raise(self, e) == [self |-> self, exc |-> e, n |-> 0]

(***************************************************************************)
(* Byte-level helpers: struct.pack and io.BytesIO.                         *)
(***************************************************************************)
Max(a, b) == IF a >= b THEN a ELSE b

RECURSIVE Pow(_, _)
Pow(b, e) == IF e = 0 THEN 1 ELSE b * Pow(b, e - 1)

\* int.to_bytes(length_length, "big"); the caller checks the range.
RECURSIVE ToBytes(_, _)
ToBytes(v, nbytes) ==
    IF nbytes = 0 THEN <<>> ELSE Append(ToBytes(v \div 256, nbytes - 1), v % 256)

\* struct.pack("!H", v) and struct.pack("!I", v) raise struct.error out of range.
FitsU16(v) == v >= 0 /\ v <= 65535
FitsU32(v) == v >= 0 /\ v \div 65536 <= 65535
U16(v) == ToBytes(v, 2)
U32(v) == ToBytes(v, 4)

Zeros(k) == [i \in 1..k |-> 0]

\* io.BytesIO.write at the cursor: overwrites, and extends the buffer at its end.
Write(self, bytes) ==
    LET pos == self.cursor
        new == Max(Len(self.output), pos + Len(bytes))
    IN [self EXCEPT
          !.output = [i \in 1..new |->
                        IF i > pos /\ i <= pos + Len(bytes) THEN bytes[i - pos]
                        ELSE IF i <= Len(self.output) THEN self.output[i]
                        ELSE 0],
          !.cursor = pos + Len(bytes)]

Seek(self, where) == [self EXCEPT !.cursor = where]

(***************************************************************************)
(* The record codec the Renderer calls into: names, rrsets and rdatasets,  *)
(* and the OPT pseudo-record.  A name is one label and the root; with a    *)
(* compression table a name already in the table is written as a two-byte  *)
(* pointer to its offset, and a name written in full is entered in the     *)
(* table at the offset where it starts.                                    *)
(***************************************************************************)
Names == {"a", "b"}
\* The algorithm name of the TSIG keys.
AlgorithmName == "h"
LabelByte(name) ==
    CASE name = "a" -> 97 [] name = "b" -> 98 [] name = "h" -> 104

\* The largest offset a compression pointer can hold.
MaxPointer == 16383

\* dns.name.Name.to_wire(file, compress, origin); use_table is compress is not None.
Name_to_wire(self, name, use_table) ==
    IF use_table /\ name \in DOMAIN self.compress
    THEN Write(self, <<192 + (self.compress[name] \div 256),
                       self.compress[name] % 256>>)
    ELSE LET s == IF use_table /\ self.cursor <= MaxPointer
                  THEN [self EXCEPT !.compress =
                          [k \in DOMAIN self.compress \cup {name} |->
                             IF k = name THEN self.cursor ELSE self.compress[k]]]
                  ELSE self
         IN Write(s, <<1, LabelByte(name), 0>>)

\* An ordinary rrset: an owner name and n rdatas of four bytes each (type A,
\* class IN, ttl 0).  An rdataset is the same without its owner name.
RR(name, n) == [kind |-> "RR", name |-> name, n |-> n]
RRsets == {RR("a", n) : n \in 0..(MaxRdatas - 1)} \cup {RR("b", MaxRdatas)}

\* EDNS options: [otype, data].
PADDING == 12
COOKIE == 10
OptionLists == {<<>>, <<[otype |-> COOKIE, data |-> <<7>>]>>}

RECURSIVE Options_to_wire(_)
Options_to_wire(options) ==
    IF options = <<>> THEN <<>>
    ELSE U16(Head(options).otype) \o U16(Len(Head(options).data))
         \o Head(options).data \o Options_to_wire(Tail(options))

\* One record of an ordinary rrset, the i-th.
RECURSIVE Records_to_wire(_, _, _)
Records_to_wire(self, rrset, i) ==
    IF i > rrset.n THEN self
    ELSE Records_to_wire(
           Write(Name_to_wire(self, rrset.name, TRUE),
                 U16(1) \o U16(1) \o U32(0) \o U16(4) \o <<10, 0, 0, i>>),
           rrset, i + 1)

\* dns.rrset.RRset.to_wire(file, compress, origin): writes every record of the
\* rrset and returns how many it wrote.  An OPT rrset is the root name, type
\* OPT (41), the payload as class, the flags as ttl, and the options as rdata.
RRset_to_wire(self, rrset) ==
    IF rrset.kind = "OPT"
    THEN LET rdata == Options_to_wire(rrset.options)
         IN [self |-> Write(self, <<0>> \o U16(41) \o U16(rrset.rdclass)
                                  \o U32(rrset.ttl) \o U16(Len(rdata))
                                  \o rdata),
             exc |-> "None", n |-> 1]
    ELSE [self |-> Records_to_wire(self, rrset, 1), exc |-> "None",
          n |-> rrset.n]

(***************************************************************************)
(* dns._render_util.prefixed_length, a context manager: its entry, and its *)
(* exit after the body has run.                                            *)
(***************************************************************************)
prefixed_length_enter(self, length_length) ==
    Write(self, Zeros(length_length))

\* start is the cursor after the entry; self is the state after the body.
prefixed_length_exit(self, start, length_length) ==
    LET end == self.cursor
        length == end - start
    IN IF length > 0
       THEN IF length >= Pow(256, length_length)
            THEN Raise(Seek(self, end), "FormError")
            ELSE Ok(Seek(Write(Seek(self, start - length_length),
                               ToBytes(length, length_length)), end))
       ELSE Ok(self)

(***************************************************************************)
(* The Renderer's private helpers.                                         *)
(***************************************************************************)
\* A _rollback that truncates the buffer and keeps every table entry.
_rollback_keeps_table(self, where) ==
    [self EXCEPT !.cursor = where, !.output = SubSeq(self.output, 1, where)]

\* A _rollback that keeps an entry at the truncation point itself.
_rollback_above(self, where) ==
    [self EXCEPT
       !.cursor = where,
       !.output = SubSeq(self.output, 1, where),
       !.compress = [k \in {k \in DOMAIN self.compress :
                              ~(self.compress[k] > where)} |->
                       self.compress[k]]]

\* A _rollback that truncates at where without seeking there: the position
\* of the io.BytesIO stays beyond the end.
_rollback_truncates_only(self, where) ==
    [self EXCEPT
       !.output = SubSeq(self.output, 1, where),
       !.compress = [k \in {k \in DOMAIN self.compress :
                              ~(self.compress[k] >= where)} |->
                       self.compress[k]]]

\* Renderer._rollback(where)
_rollback(self, where) ==
    [self EXCEPT
       !.cursor = where,
       !.output = SubSeq(self.output, 1, where),
       !.compress = [k \in {k \in DOMAIN self.compress :
                              ~(self.compress[k] >= where)} |->
                       self.compress[k]]]

\* A _set_section without the order check.
_set_section_unordered(self, sec) ==
    IF self.section # sec THEN Ok([self EXCEPT !.section = sec]) ELSE Ok(self)

\* A _set_section that assigns the section before it checks the order.
_set_section_assigns_first(self, sec) ==
    IF self.section # sec
    THEN IF self.section > sec
         THEN Raise([self EXCEPT !.section = sec], "FormError")
         ELSE Ok([self EXCEPT !.section = sec])
    ELSE Ok(self)

\* Renderer._set_section(section)
_set_section(self, sec) ==
    IF self.section # sec
    THEN IF self.section > sec
         THEN Raise(self, "FormError")
         ELSE Ok([self EXCEPT !.section = sec])
    ELSE Ok(self)

\* A _track_size that never compares the position with max_size.
_track_size_unchecked(start, r) == r

\* A _track_size that also refuses a write that ends exactly at max_size.
_track_size_strict(start, r) ==
    IF r.exc # "None" THEN r
    ELSE IF r.self.cursor >= r.self.max_size
         THEN Raise(_rollback(r.self, start), "TooBig")
         ELSE r

\* Renderer._track_size, a context manager: start is the position it recorded
\* on entry and r the result of the body.  An exception raised by the body
\* passes through the generator, which has no handler for it.
_track_size(start, r) ==
    IF r.exc # "None" THEN r
    ELSE IF r.self.cursor > r.self.max_size
         THEN Raise(_rollback(r.self, start), "TooBig")
         ELSE r

\* A _temporarily_seek_to that does not seek back to where the cursor was.
_temporarily_seek_to_stays(self, where, bytes) ==
    Write(Seek(self, where), bytes)

\* Renderer._temporarily_seek_to(where) around one write of bytes.
_temporarily_seek_to(self, where, bytes) ==
    LET current == self.cursor
    IN Seek(Write(Seek(self, where), bytes), current)

AddCount(self, sec, n) ==
    [self EXCEPT !.counts = [self.counts EXCEPT ![sec] = self.counts[sec] + n]]

(***************************************************************************)
(* The Renderer's public methods.                                          *)
(***************************************************************************)
\* Renderer.add_question(qname, rdtype, rdclass)
add_question(self, qname, rdtype, rdclass) ==
    LET s == _set_section(self, QUESTION)
    IN IF s.exc # "None" THEN s
       ELSE LET start == s.self.cursor
                named == Name_to_wire(s.self, qname, TRUE)
                body == IF FitsU16(rdtype) /\ FitsU16(rdclass)
                        THEN Ok(Write(named, U16(rdtype) \o U16(rdclass)))
                        ELSE Raise(named, "struct.error")
                t == _track_size(start, body)
            IN IF t.exc # "None" THEN t
               ELSE [self |-> AddCount(t.self, QUESTION, 1), exc |-> "None",
                     n |-> 1]

\* An add_rrset that counts the records before it has written them.
add_rrset_counts_first(self, sec, rrset) ==
    LET s == _set_section(self, sec)
    IN IF s.exc # "None" THEN s
       ELSE LET counted == AddCount(s.self, sec, rrset.n)
                start == counted.cursor
                t == _track_size(start, RRset_to_wire(counted, rrset))
            IN IF t.exc # "None" THEN t
               ELSE [self |-> t.self, exc |-> "None", n |-> t.n]

\* Renderer.add_rrset(section, rrset)
add_rrset(self, sec, rrset) ==
    LET s == _set_section(self, sec)
    IN IF s.exc # "None" THEN s
       ELSE LET start == s.self.cursor
                t == _track_size(start, RRset_to_wire(s.self, rrset))
            IN IF t.exc # "None" THEN t
               ELSE [self |-> AddCount(t.self, sec, t.n), exc |-> "None",
                     n |-> t.n]

\* Renderer.add_rdataset(section, name, rdataset)
add_rdataset(self, sec, name, rdataset) ==
    LET s == _set_section(self, sec)
    IN IF s.exc # "None" THEN s
       ELSE LET start == s.self.cursor
                t == _track_size(start,
                        RRset_to_wire(s.self, RR(name, rdataset.n)))
            IN IF t.exc # "None" THEN t
               ELSE [self |-> AddCount(t.self, sec, t.n), exc |-> "None",
                     n |-> t.n]

\* Bitwise or of non-negative integers.
RECURSIVE BitOr(_, _)
BitOr(a, b) ==
    IF a = 0 THEN b
    ELSE IF b = 0 THEN a
    ELSE (IF a % 2 = 1 \/ b % 2 = 1 THEN 1 ELSE 0)
         + 2 * BitOr(a \div 2, b \div 2)

\* _make_opt(flags, payload, options): an rrset at the root name whose ttl is
\* the flags and whose single OPT rdata has the payload as its class.
_make_opt(flgs, payload, options) ==
    [kind |-> "OPT", ttl |-> flgs, rdclass |-> payload, options |-> options]

\* An add_opt that pads the position alone, without the size of the OPT.
add_opt_pads_position(self, opt, pad, opt_size, tsig_size) ==
    IF pad # 0
    THEN IF ~(opt_size >= 11) THEN Raise(self, "AssertionError")
         ELSE LET remainder == (self.cursor + tsig_size) % pad
                  pad_b == IF remainder # 0 THEN Zeros(pad - remainder)
                           ELSE <<>>
                  options == Append(opt.options,
                                    [otype |-> PADDING, data |-> pad_b])
                  padded == _make_opt(opt.ttl, opt.rdclass, options)
              IN add_rrset([self EXCEPT !.was_padded = TRUE], ADDITIONAL,
                           padded)
    ELSE add_rrset(self, ADDITIONAL, opt)

\* An add_opt that pads a whole block when the size is already a multiple of
\* pad.
add_opt_pads_full_block(self, opt, pad, opt_size, tsig_size) ==
    IF pad # 0
    THEN IF ~(opt_size >= 11) THEN Raise(self, "AssertionError")
         ELSE LET size_without_padding == self.cursor + opt_size + tsig_size
                  remainder == size_without_padding % pad
                  pad_b == Zeros(pad - remainder)
                  options == Append(opt.options,
                                    [otype |-> PADDING, data |-> pad_b])
                  padded == _make_opt(opt.ttl, opt.rdclass, options)
              IN add_rrset([self EXCEPT !.was_padded = TRUE], ADDITIONAL,
                           padded)
    ELSE add_rrset(self, ADDITIONAL, opt)

\* Renderer.add_opt(opt, pad, opt_size, tsig_size)
add_opt(self, opt, pad, opt_size, tsig_size) ==
    IF pad # 0
    THEN IF ~(opt_size >= 11) THEN Raise(self, "AssertionError")
         ELSE LET size_without_padding == self.cursor + opt_size + tsig_size
                  remainder == size_without_padding % pad
                  pad_b == IF remainder # 0 THEN Zeros(pad - remainder)
                           ELSE <<>>
                  options == Append(opt.options,
                                    [otype |-> PADDING, data |-> pad_b])
                  padded == _make_opt(opt.ttl, opt.rdclass, options)
              IN add_rrset([self EXCEPT !.was_padded = TRUE], ADDITIONAL,
                           padded)
    ELSE add_rrset(self, ADDITIONAL, opt)

\* An add_edns that sets the version bits without clearing the ones in
\* ednsflags.
add_edns_keeps_version(self, edns, ednsflags, payload, options) ==
    add_opt(self, _make_opt(BitOr(ednsflags, edns * 65536), payload, options),
            0, 0, 0)

\* Renderer.add_edns(edns, ednsflags, payload, options)
add_edns(self, edns, ednsflags, payload, options) ==
    \* ednsflags &= 0xFF00FFFF clears bits 16-23
    LET cleared == ednsflags - ((ednsflags \div 65536) % 256) * 65536
        merged == BitOr(cleared, edns * 65536)
    IN add_opt(self, _make_opt(merged, payload, options), 0, 0, 0)

(***************************************************************************)
(* TSIG.  The signing key is external: sign(message, placeholder, time,    *)
(* request_mac, ctx, multi) returns the signature record and a new         *)
(* continuation context, or raises.  Its MAC is one byte here, a checksum  *)
(* of everything the signer is given.                                      *)
(***************************************************************************)
RECURSIVE SumSeq(_)
SumSeq(q) == IF q = <<>> THEN 0 ELSE Head(q) + SumSeq(Tail(q))

\* No continuation context (None).
NoCtx == -1

\* _make_tsig(keyname, algorithm, time_signed, fudge, mac, original_id, error,
\* other): the TSIG rdata (the rrset's owner name is passed on separately).
_make_tsig(keyname, algorithm, time_signed, fudge, mac, original_id, error, other) ==
    [algorithm |-> algorithm, time_signed |-> time_signed, fudge |-> fudge,
     mac |-> mac, original_id |-> original_id, error |-> error,
     other |-> other]

\* dns.tsig.Key.sign: the MAC is one byte, a digest of everything signed, the
\* key and the running context.
Sign(key, s, tsig_0, time, request_mac, c, multi) ==
    IF ~key.valid THEN [exc |-> "SignError", tsig |-> tsig_0, ctx |-> c]
    ELSE LET digest == (SumSeq(s) + SumSeq(request_mac) + time + key.secret
                        + (IF multi /\ c # NoCtx THEN c ELSE 0)) % 7
         IN [exc |-> "None",
             tsig |-> [tsig_0 EXCEPT !.time_signed = time, !.mac = <<digest>>],
             ctx |-> IF multi THEN digest ELSE NoCtx]

\* TSIG._to_wire(file): the algorithm name uncompressed, then the fixed fields,
\* the MAC and the other data with their lengths.
TSIG_to_wire(self, tsig) ==
    LET named == Name_to_wire(self, tsig.algorithm, FALSE)
        \* (time_signed >> 32) & 0xFFFF and time_signed & 0xFFFFFFFF
        hi == ((tsig.time_signed \div 65536) \div 65536) % 65536
        lo == U16((tsig.time_signed \div 65536) % 65536)
              \o U16(tsig.time_signed % 65536)
    IN IF ~FitsU16(tsig.fudge) \/ ~FitsU16(Len(tsig.mac))
       THEN Raise(named, "struct.error")
       ELSE LET fixed == Write(Write(named, U16(hi) \o lo
                                 \o U16(tsig.fudge) \o U16(Len(tsig.mac))),
                               tsig.mac)
            IN IF ~FitsU16(tsig.original_id) \/ ~FitsU16(tsig.error)
                  \/ ~FitsU16(Len(tsig.other))
               THEN Raise(fixed, "struct.error")
               ELSE Ok(Write(Write(fixed, U16(tsig.original_id)
                                   \o U16(tsig.error) \o U16(Len(tsig.other))),
                             tsig.other))

\* The offset of the AUTHORITY count, two bytes before the ADDITIONAL count.
TsigCountOffsetAuthority == HeaderLen - 4

\* The offset of the ADDITIONAL count in the header.
TsigCountOffset == 10

\* A _write_tsig that hands the compression table to the key-name write whether
\* or not the message was padded.
_write_tsig_compresses(self, tsig, keyname) ==
    LET s == _set_section(self, ADDITIONAL)
    IN IF s.exc # "None" THEN s
       ELSE LET start == s.self.cursor
                fixed == Write(Name_to_wire(s.self, keyname, TRUE),
                               U16(250) \o U16(255) \o U32(0))
                entered == prefixed_length_enter(fixed, 2)
                rdata == TSIG_to_wire(entered, tsig)
                body == IF rdata.exc # "None" THEN rdata
                        ELSE prefixed_length_exit(rdata.self, entered.cursor, 2)
                t == _track_size(start, body)
            IN IF t.exc # "None" THEN t
               ELSE LET counted == AddCount(t.self, ADDITIONAL, 1)
                    IN IF ~FitsU16(counted.counts[ADDITIONAL])
                       THEN Raise(counted, "struct.error")
                       ELSE [self |-> _temporarily_seek_to(counted, TsigCountOffset,
                                        U16(counted.counts[ADDITIONAL])),
                             exc |-> "None", n |-> 1]

\* Renderer._write_tsig(tsig, keyname)
_write_tsig(self, tsig, keyname) ==
    LET use_table == ~self.was_padded
        s == _set_section(self, ADDITIONAL)
    IN IF s.exc # "None" THEN s
       ELSE LET start == s.self.cursor
                fixed == Write(Name_to_wire(s.self, keyname, use_table),
                               U16(250) \o U16(255) \o U32(0))
                entered == prefixed_length_enter(fixed, 2)
                rdata == TSIG_to_wire(entered, tsig)
                body == IF rdata.exc # "None" THEN rdata
                        ELSE prefixed_length_exit(rdata.self, entered.cursor, 2)
                t == _track_size(start, body)
            IN IF t.exc # "None" THEN t
               ELSE LET counted == AddCount(t.self, ADDITIONAL, 1)
                    IN IF ~FitsU16(counted.counts[ADDITIONAL])
                       THEN Raise(counted, "struct.error")
                       ELSE [self |-> _temporarily_seek_to(counted, TsigCountOffset,
                                        U16(counted.counts[ADDITIONAL])),
                             exc |-> "None", n |-> 1]

\* Renderer.add_tsig(keyname, secret, fudge, id, tsig_error, other_data,
\* request_mac, algorithm); time is int(time.time()).
add_tsig(self, keyname, secret, fudge, orig_id, tsig_error, other_data, request_mac, time) ==
    LET s == self.output
        tsig_0 == _make_tsig(keyname, AlgorithmName, 0, fudge, <<>>, orig_id,
                             tsig_error, other_data)
        signed == Sign(secret, s, tsig_0, time, request_mac, NoCtx, FALSE)
    IN IF signed.exc # "None" THEN Raise(self, signed.exc)
       ELSE _write_tsig(self, signed.tsig, keyname)

\* An add_multi_tsig that signs every message as if it were the first.
add_multi_tsig_restarts(self, c, keyname, secret, fudge, orig_id, tsig_error, other_data, request_mac, time) ==
    LET s == self.output
        tsig_0 == _make_tsig(keyname, AlgorithmName, 0, fudge, <<>>, orig_id,
                             tsig_error, other_data)
        signed == Sign(secret, s, tsig_0, time, request_mac, NoCtx, TRUE)
    IN IF signed.exc # "None"
       THEN [self |-> self, exc |-> signed.exc, n |-> 0, ctx |-> c]
       ELSE LET w == _write_tsig(self, signed.tsig, keyname)
            IN [self |-> w.self, exc |-> w.exc, n |-> w.n,
                ctx |-> IF w.exc = "None" THEN signed.ctx ELSE c]

\* An add_multi_tsig that has the record signed as add_tsig does, without the
\* context, and hands back the context of a chained signing.
add_multi_tsig_unchained(self, c, keyname, secret, fudge, orig_id, tsig_error, other_data, request_mac, time) ==
    LET s == self.output
        tsig_0 == _make_tsig(keyname, AlgorithmName, 0, fudge, <<>>, orig_id,
                             tsig_error, other_data)
        signed == Sign(secret, s, tsig_0, time, request_mac, c, FALSE)
        chained == Sign(secret, s, tsig_0, time, request_mac, c, TRUE)
    IN IF signed.exc # "None"
       THEN [self |-> self, exc |-> signed.exc, n |-> 0, ctx |-> c]
       ELSE LET w == _write_tsig(self, signed.tsig, keyname)
            IN [self |-> w.self, exc |-> w.exc, n |-> w.n,
                ctx |-> IF w.exc = "None" THEN chained.ctx ELSE c]

\* Renderer.add_multi_tsig(ctx, keyname, secret, fudge, id, tsig_error,
\* other_data, request_mac): the result also carries the returned context.
add_multi_tsig(self, c, keyname, secret, fudge, orig_id, tsig_error, other_data, request_mac, time) ==
    LET s == self.output
        tsig_0 == _make_tsig(keyname, AlgorithmName, 0, fudge, <<>>, orig_id,
                             tsig_error, other_data)
        signed == Sign(secret, s, tsig_0, time, request_mac, c, TRUE)
    IN IF signed.exc # "None"
       THEN [self |-> self, exc |-> signed.exc, n |-> 0, ctx |-> c]
       ELSE LET w == _write_tsig(self, signed.tsig, keyname)
            IN [self |-> w.self, exc |-> w.exc, n |-> w.n,
                ctx |-> IF w.exc = "None" THEN signed.ctx ELSE c]

\* A write_header that packs the ANSWER and AUTHORITY counts in each other's
\* place.
write_header_swapped(self) ==
    IF ~FitsU16(self.id) \/ ~FitsU16(self.flags)
       \/ \E i \in Sections : ~FitsU16(self.counts[i])
    THEN Raise(self, "struct.error")
    ELSE Ok(_temporarily_seek_to(self, 0,
              U16(self.id) \o U16(self.flags) \o U16(self.counts[0])
              \o U16(self.counts[2]) \o U16(self.counts[1])
              \o U16(self.counts[3])))

\* A write_header that writes the header at the cursor, without seeking to 0.
write_header_appended(self) ==
    IF ~FitsU16(self.id) \/ ~FitsU16(self.flags)
       \/ \E i \in Sections : ~FitsU16(self.counts[i])
    THEN Raise(self, "struct.error")
    ELSE Ok(Write(self,
              U16(self.id) \o U16(self.flags) \o U16(self.counts[0])
              \o U16(self.counts[1]) \o U16(self.counts[2])
              \o U16(self.counts[3])))

\* Renderer.write_header()
write_header(self) ==
    IF ~FitsU16(self.id) \/ ~FitsU16(self.flags)
       \/ \E i \in Sections : ~FitsU16(self.counts[i])
    THEN Raise(self, "struct.error")
    ELSE Ok(_temporarily_seek_to(self, 0,
              U16(self.id) \o U16(self.flags) \o U16(self.counts[0])
              \o U16(self.counts[1]) \o U16(self.counts[2])
              \o U16(self.counts[3])))

\* Renderer.get_wire()
get_wire(self) == self.output

\* A reserve without the check for a negative size.
reserve_unsigned(self, size) ==
    IF size > self.max_size THEN Raise(self, "ValueError")
    ELSE Ok([self EXCEPT !.reserved = self.reserved + size,
                         !.max_size = self.max_size - size])

\* A reserve that lowers max_size without adding to the reservation.
reserve_unbudgeted(self, size) ==
    IF size < 0 THEN Raise(self, "ValueError")
    ELSE IF size > self.max_size THEN Raise(self, "ValueError")
    ELSE Ok([self EXCEPT !.max_size = self.max_size - size])

\* Renderer.reserve(size)
reserve(self, size) ==
    IF size < 0 THEN Raise(self, "ValueError")
    ELSE IF size > self.max_size THEN Raise(self, "ValueError")
    ELSE Ok([self EXCEPT !.reserved = self.reserved + size,
                         !.max_size = self.max_size - size])

\* A release_reserved that gives the size back and keeps the reservation.
release_reserved_keeps(self) ==
    Ok([self EXCEPT !.max_size = self.max_size + self.reserved])

\* Renderer.release_reserved()
release_reserved(self) ==
    Ok([self EXCEPT !.max_size = self.max_size + self.reserved,
                    !.reserved = 0])

(***************************************************************************)
(* The state machine: one Renderer, driven by its caller.                  *)
(***************************************************************************)
EmptyTable == [k \in {} |-> 0]
NoCounts == [i \in Sections |-> 0]

\* What callers pass in.
MaxSizes == {HeaderLen, 72}
Ids == {258}
FlagsValues == {33152}
Questions == {[qname |-> "a", rdtype |-> 1], [qname |-> "b", rdtype |-> 1],
              [qname |-> "b", rdtype |-> 65536]}
OptSizes == {0, 15, 20}
TsigSizes == {0, 5}
OptCalls ==
    [pad : {0}, opt_size : {0}, tsig_size : {0}]
    \cup [pad : {MaxPad}, opt_size : OptSizes, tsig_size : TsigSizes]
EdnsVersions == {0, 1}
EdnsFlags == {33521664}
Opts == {_make_opt(0, DEFAULT_EDNS_PAYLOAD, o) : o \in OptionLists}
Keys == {[valid |-> TRUE, secret |-> 5], [valid |-> FALSE, secret |-> 0]}
Times == {1000}
KeyNames == {"a"}
ReserveSizes == {-1, 0, ReserveChunk, max_size + 1}

\* Renderer.__init__(id, flags, max_size)
Init ==
    /\ output = Zeros(HeaderLen)
    /\ cursor = HeaderLen
    /\ compress = EmptyTable
    /\ section = QUESTION
    /\ counts = NoCounts
    /\ max_size \in MaxSizes
    /\ reserved = 0
    /\ was_padded = FALSE
    /\ id \in Ids
    /\ flags \in FlagsValues
    /\ ctx = NoCtx
    /\ last = [op |-> "__init__", arg |-> 0, exc |-> "None"]
    /\ created = max_size
    /\ written = NoCounts
    /\ hdr_written = FALSE
    /\ tsig_done = FALSE
    /\ faults = 0
    /\ messages = 1
    /\ NoSets
    /\ NoSerials
    /\ NoImmutables
    /\ NoDdr

\* The call returned or raised: the Renderer is as the method left it.  last
\* records the kind of call ("add" for a content-adding call, "tsig" and
\* "multi_tsig" for add_tsig and add_multi_tsig, else the method's name), its argument (the
\* target section of a content-adding call, the size of a reserve) and the
\* exception it raised ("None" when it returned).
Apply(r, op, arg) ==
    /\ output' = r.self.output
    /\ cursor' = r.self.cursor
    /\ compress' = r.self.compress
    /\ section' = r.self.section
    /\ counts' = r.self.counts
    /\ max_size' = r.self.max_size
    /\ reserved' = r.self.reserved
    /\ was_padded' = r.self.was_padded
    /\ id' = r.self.id
    /\ flags' = r.self.flags
    /\ last' = [op |-> op, arg |-> arg, exc |-> r.exc]
    /\ created' = created
    /\ messages' = messages
    /\ UNCHANGED <<SetVars, SerialVars, ImmutableVars, DdrVars>>

\* A content-adding call into section sec.
Content(r, op, sec) ==
    /\ Len(output) < MaxOutput
    /\ r.exc = "struct.error" => faults < MaxFaults
    /\ faults' = IF r.exc = "struct.error" THEN faults + 1 ELSE faults
    /\ Apply(r, op, sec)
    /\ written' = IF r.exc = "None"
                  THEN [written EXCEPT ![sec] = written[sec] + r.n]
                  ELSE written
    /\ UNCHANGED hdr_written

AddQuestion ==
    \E q \in Questions :
        /\ counts[QUESTION] < MaxQuestions
        /\ Content(add_question(Self, q.qname, q.rdtype, 1), "add", QUESTION)
        /\ UNCHANGED <<ctx, tsig_done>>

AddRRset ==
    \E sec \in Sections, rrset \in RRsets :
        /\ Content(add_rrset(Self, sec, rrset), "add", sec)
        /\ UNCHANGED <<ctx, tsig_done>>

AddRdataset ==
    \E sec \in Sections, rrset \in RRsets :
        /\ Content(add_rdataset(Self, sec, rrset.name, [n |-> rrset.n]), "add",
                   sec)
        /\ UNCHANGED <<ctx, tsig_done>>

AddOpt ==
    \E opt \in Opts, c \in OptCalls :
        /\ Content(add_opt(Self, opt, c.pad, c.opt_size, c.tsig_size), "add",
                   ADDITIONAL)
        /\ UNCHANGED <<ctx, tsig_done>>

AddEdns ==
    \E edns \in EdnsVersions, ednsflags \in EdnsFlags :
        /\ Content(add_edns(Self, edns, ednsflags, DEFAULT_EDNS_PAYLOAD, <<>>),
                   "add", ADDITIONAL)
        /\ UNCHANGED <<ctx, tsig_done>>

AddTsig ==
    \E keyname \in KeyNames, secret \in Keys, time \in Times :
        LET r == add_tsig(Self, keyname, secret, 300, id, 0, <<>>, <<>>, time)
        IN /\ Content(r, "tsig", ADDITIONAL)
           /\ tsig_done' = (tsig_done \/ r.exc = "None")
           /\ UNCHANGED ctx

AddMultiTsig ==
    \E keyname \in KeyNames, secret \in Keys, time \in Times :
        LET r == add_multi_tsig(Self, ctx, keyname, secret, 300, id, 0, <<>>,
                                <<>>, time)
        IN /\ Content(r, "multi_tsig", ADDITIONAL)
           /\ tsig_done' = (tsig_done \/ r.exc = "None")
           /\ ctx' = r.ctx

WriteHeader ==
    /\ Apply(write_header(Self), "write_header", 0)
    /\ hdr_written' = TRUE
    /\ UNCHANGED <<ctx, written, tsig_done, faults>>

GetWire ==
    /\ Apply(Ok(Self), "get_wire", 0)
    /\ UNCHANGED <<ctx, written, hdr_written, tsig_done, faults>>

Reserve ==
    \E size \in ReserveSizes :
        /\ Apply(reserve(Self, size), "reserve", size)
        /\ UNCHANGED <<ctx, written, hdr_written, tsig_done, faults>>

ReleaseReserved ==
    /\ Apply(release_reserved(Self), "release_reserved", 0)
    /\ UNCHANGED <<ctx, written, hdr_written, tsig_done, faults>>

Next ==
    \/ AddQuestion
    \/ AddRRset
    \/ AddRdataset
    \/ AddOpt
    \/ AddEdns
    \/ AddTsig
    \/ AddMultiTsig
    \/ WriteHeader
    \/ GetWire
    \/ Reserve
    \/ ReleaseReserved

Spec == Init /\ [][Next]_vars

(***************************************************************************)
(* Properties of the Renderer.                                             *)
(***************************************************************************)
IsTsig(l) == l.op \in {"tsig", "multi_tsig"}
IsContent(l) == l.op = "add" \/ IsTsig(l)
Failed(l) == l.exc # "None"

\* The four 16-bit count fields of the header, offsets 4-11.
HeaderCounts(wire) ==
    [i \in Sections |-> wire[5 + 2 * i] * 256 + wire[6 + 2 * i]]

\* A call that raised before it reached _set_section: add_opt's assertion on
\* opt_size, or the signer in add_tsig and add_multi_tsig.
RejectedEarly(l) == l.exc \in {"AssertionError", "SignError"}

\* C1 as claimed: over any sequence of calls the current section never
\* decreases; a content-adding call that targets a section below the current
\* one raises FormError, one that targets the current section leaves it, and
\* one that targets a higher section makes exactly that section the current
\* one.
C1_SectionOrder ==
    [][/\ section' >= section
       /\ IsContent(last') =>
            /\ last'.arg < section =>
                 (last'.exc = "FormError" /\ section' = section)
            /\ last'.arg = section => section' = section
            /\ last'.arg > section => section' = last'.arg]_vars

\* C1 as amended: the same, except that a call to a higher section that raised
\* before it reached _set_section leaves the current section as it was.
C1_SectionOrderUnlessRejected ==
    [][/\ section' >= section
       /\ IsContent(last') =>
            /\ last'.arg < section =>
                 (last'.exc = "FormError" /\ section' = section)
            /\ last'.arg = section => section' = section
            /\ (last'.arg > section /\ ~RejectedEarly(last')) =>
                 section' = last'.arg
            /\ (last'.arg > section /\ RejectedEarly(last')) =>
                 section' = section]_vars

\* C1 witness: the ADDITIONAL section was entered with ANSWER and AUTHORITY
\* left empty, and a call that went back to AUTHORITY has been refused.
C1_Witness ==
    /\ section = ADDITIONAL
    /\ counts[ANSWER] = 0 /\ counts[AUTHORITY] = 0
    /\ counts[ADDITIONAL] > 0
    /\ last = [op |-> "add", arg |-> AUTHORITY, exc |-> "FormError"]

\* C2: a content-adding call that fails with TooBig leaves the buffer and the
\* compression table as they were before the call: the buffer is cut back to
\* the position where the call began writing, and no table entry is left
\* that points at or beyond that position.
C2_TooBigRollsBack ==
    [][(IsContent(last') /\ last'.exc = "TooBig") =>
         /\ output' = output
         /\ compress' = compress
         /\ Len(output') = cursor
         /\ \A k \in DOMAIN compress' : compress'[k] < cursor]_vars

\* C2 witness: after one question for "a", an answer that does not fit has been
\* rolled back; the entry for "a" is kept and nothing else is in the table.
C2_Witness ==
    /\ last = [op |-> "add", arg |-> ANSWER, exc |-> "TooBig"]
    /\ counts[QUESTION] = 1
    /\ DOMAIN compress = {"a"}
    /\ Len(output) = HeaderLen + 7
    /\ Len(output) < max_size

\* C3: a content-adding call that targets a section behind the current one
\* raises FormError and changes nothing: not the buffer, the compression
\* table, the counts or the current section.
C3_BackwardChangesNothing ==
    [][(IsContent(last') /\ last'.arg < section) =>
         /\ last'.exc = "FormError"
         /\ output' = output
         /\ cursor' = cursor
         /\ compress' = compress
         /\ counts' = counts
         /\ section' = section]_vars

\* C3 witness: add_question was refused after the ANSWER section had content.
C3_Witness ==
    /\ last = [op |-> "add", arg |-> QUESTION, exc |-> "FormError"]
    /\ section = ANSWER
    /\ counts[ANSWER] > 0
    /\ compress # EmptyTable

\* C4: right after write_header() the four count fields of the header equal,
\* section by section, the number of records written by the calls that
\* returned.
C4_HeaderCounts ==
    (last.op = "write_header" /\ last.exc = "None") =>
        HeaderCounts(get_wire(Self)) = written

\* C4 witness: the header was written over a message with one question, no
\* answer and a set of several records in the AUTHORITY section.
C4_Witness ==
    /\ last.op = "write_header"
    /\ written[QUESTION] = 1
    /\ written[ANSWER] = 0
    /\ written[AUTHORITY] = MaxRdatas
    /\ HeaderCounts(output)[AUTHORITY] = MaxRdatas

\* C5: whenever a call raises, the buffer and the compression table are what
\* they were before the call.
C5_AnyErrorChangesNothing ==
    [][Failed(last') => (output' = output /\ compress' = compress)]_vars

\* C6 as claimed: the buffer is never longer than max_size.
C6_LengthWithinMaxSize == Len(output) <= max_size

\* C6 as amended: after a content-adding call that returned, the buffer is
\* no longer than the max_size then in effect.
C6_LengthWithinMaxSizeAfterAdd ==
    (IsContent(last) /\ ~Failed(last)) => Len(output) <= max_size

\* C6 witness: with part of the size reserved, a record was added that brought
\* the buffer to within one question of the reduced max_size.
C6_Witness ==
    /\ IsContent(last) /\ ~Failed(last)
    /\ reserved > 0
    /\ Len(output) > HeaderLen
    /\ Len(output) + 7 > max_size

\* C7: reserve(n) with 0 <= n <= max_size returns and lowers max_size by
\* exactly n; release_reserved() right after it restores max_size to the
\* value the Renderer was created with and sets reserved to 0.
C7_ReserveRelease ==
    [][/\ (last'.op = "reserve" /\ last'.arg >= 0 /\ last'.arg <= max_size) =>
            /\ last'.exc = "None"
            /\ max_size' = max_size - last'.arg
       /\ (last.op = "reserve" /\ ~Failed(last)
           /\ last'.op = "release_reserved") =>
            /\ max_size' = created
            /\ reserved' = 0]_vars

\* C7 witness: a second reserve has succeeded, of all that the first one left.
C7_Witness ==
    /\ last = [op |-> "reserve", arg |-> ReserveChunk, exc |-> "None"]
    /\ reserved = 2 * ReserveChunk
    /\ max_size = created - reserved

\* C8: reserve(n) raises exactly when n is negative or greater than the
\* current max_size, and then no field of the Renderer changes.
C8_ReserveRejects ==
    [][last'.op = "reserve" =>
         /\ Failed(last') <=> (last'.arg < 0 \/ last'.arg > max_size)
         /\ Failed(last') =>
              UNCHANGED <<output, cursor, compress, section, counts, max_size,
                          reserved, was_padded, id, flags>>]_vars

\* C8 witness: a reserve of more than the already reduced max_size was refused.
C8_Witness ==
    /\ last = [op |-> "reserve", arg |-> ReserveChunk, exc |-> "ValueError"]
    /\ reserved > 0
    /\ max_size < ReserveChunk
    /\ Len(output) > HeaderLen

\* C9 as claimed: before the first write_header() the first 12 bytes of the
\* wire are all zero.
C9_HeaderZeroBeforeWriteHeader ==
    ~hdr_written => \A i \in 1..HeaderLen : get_wire(Self)[i] = 0

\* C9 as amended: before the first write_header() the first 10 bytes of the
\* wire are zero, and so are bytes 10 and 11 unless an add_tsig or
\* add_multi_tsig call has returned.
C9_HeaderZeroUnlessTsig ==
    ~hdr_written =>
        /\ \A i \in 1..10 : get_wire(Self)[i] = 0
        /\ ~tsig_done => \A i \in 11..HeaderLen : get_wire(Self)[i] = 0

\* C9 witness: get_wire() after a TSIG and before any write_header().
C9_Witness ==
    /\ last.op = "get_wire"
    /\ ~hdr_written
    /\ tsig_done
    /\ get_wire(Self)[12] = counts[ADDITIONAL]
    /\ counts[ADDITIONAL] > 1

\* The wire size of an OPT record with these options and an empty PADDING
\* option: 11, 4 and the data for each option, and 4.
RECURSIVE OptionsSize(_)
OptionsSize(options) ==
    IF options = <<>> THEN 0
    ELSE 4 + Len(Head(options).data) + OptionsSize(Tail(options))
OptSizeWithPadding(opt) == 11 + OptionsSize(opt.options) + 4

\* C10: add_opt with pad > 0, tsig_size = 0 and opt_size the wire size of the
\* OPT with an empty PADDING option, when it returns, leaves a buffer whose
\* length is a multiple of pad.
C10_PaddedLength ==
    \A opt \in Opts, c \in OptCalls :
        (c.pad > 0 /\ c.tsig_size = 0 /\ c.opt_size = OptSizeWithPadding(opt))
        => LET r == add_opt(Self, opt, c.pad, c.opt_size, c.tsig_size)
           IN r.exc = "None" =>
                /\ Len(r.self.output) % c.pad = 0
                /\ Len(r.self.output) >= Len(output) + c.opt_size

\* C10 witness: one question, no answers, and a padded OPT with padding bytes
\* in it; the length is a multiple of the block size.
C10_Witness ==
    /\ last = [op |-> "add", arg |-> ADDITIONAL, exc |-> "None"]
    /\ was_padded
    /\ counts = [i \in Sections |-> IF i \in {QUESTION, ADDITIONAL} THEN 1 ELSE 0]
    /\ Len(output) % MaxPad = 0
    /\ Len(output) > HeaderLen + 7 + 15

(***************************************************************************)
(* A stream of signed messages: the caller renders one message after       *)
(* another, each in a Renderer of its own, signs each one and hands the    *)
(* context that add_multi_tsig returned to the call for the next message.  *)
(***************************************************************************)
StreamMaxSizes == {80}
StreamOpt == _make_opt(0, DEFAULT_EDNS_PAYLOAD, <<>>)

\* Renderer.__init__(id, flags, max_size) for the first message.
InitStream ==
    /\ output = Zeros(HeaderLen)
    /\ cursor = HeaderLen
    /\ compress = EmptyTable
    /\ section = QUESTION
    /\ counts = NoCounts
    /\ max_size \in StreamMaxSizes
    /\ reserved = 0
    /\ was_padded = FALSE
    /\ id \in Ids
    /\ flags \in FlagsValues
    /\ ctx = NoCtx
    /\ last = [op |-> "__init__", arg |-> 0, exc |-> "None"]
    /\ created = max_size
    /\ written = NoCounts
    /\ hdr_written = FALSE
    /\ tsig_done = FALSE
    /\ faults = 0
    /\ messages = 1
    /\ NoSets
    /\ NoSerials
    /\ NoImmutables
    /\ NoDdr

\* A call on the current message's Renderer.
StreamCall(r, op, sec) ==
    /\ Apply(r, op, sec)
    /\ written' = IF r.exc = "None"
                  THEN [written EXCEPT ![sec] = written[sec] + r.n]
                  ELSE written
    /\ UNCHANGED <<hdr_written, faults>>

StreamAddQuestion ==
    \E qname \in Names :
        /\ ~tsig_done
        /\ counts[QUESTION] < MaxQuestions
        /\ StreamCall(add_question(Self, qname, 1, 1), "add", QUESTION)
        /\ UNCHANGED <<ctx, tsig_done>>

\* add_opt, unpadded or padded to a block with the OPT's size given.
StreamAddOpt ==
    \E pad \in {0, MaxPad} :
        /\ ~tsig_done
        /\ counts[ADDITIONAL] = 0
        /\ StreamCall(add_opt(Self, StreamOpt, pad,
                              OptSizeWithPadding(StreamOpt), 0),
                      "add", ADDITIONAL)
        /\ UNCHANGED <<ctx, tsig_done>>

StreamAddTsig ==
    \E keyname \in Names, secret \in Keys, time \in Times :
        LET r == add_tsig(Self, keyname, secret, 300, id, 0, <<>>, <<>>, time)
        IN /\ StreamCall(r, "tsig", ADDITIONAL)
           /\ tsig_done' = (tsig_done \/ r.exc = "None")
           /\ UNCHANGED ctx

StreamAddMultiTsig ==
    \E keyname \in Names, secret \in Keys, time \in Times :
        LET r == add_multi_tsig(Self, ctx, keyname, secret, 300, id, 0, <<>>,
                                <<>>, time)
        IN /\ StreamCall(r, "multi_tsig", ADDITIONAL)
           /\ tsig_done' = (tsig_done \/ r.exc = "None")
           /\ ctx' = r.ctx

\* Renderer.__init__ for the next message of the stream; the caller keeps the
\* context.
NextMessage ==
    /\ tsig_done
    /\ messages < MaxMessages
    /\ output' = Zeros(HeaderLen)
    /\ cursor' = HeaderLen
    /\ compress' = EmptyTable
    /\ section' = QUESTION
    /\ counts' = NoCounts
    /\ max_size' = created
    /\ reserved' = 0
    /\ was_padded' = FALSE
    /\ last' = [op |-> "__init__", arg |-> 0, exc |-> "None"]
    /\ written' = NoCounts
    /\ hdr_written' = FALSE
    /\ tsig_done' = FALSE
    /\ messages' = messages + 1
    /\ UNCHANGED <<id, flags, ctx, created, faults, SetVars, SerialVars,
                   ImmutableVars, DdrVars>>

NextStream ==
    \/ StreamAddQuestion
    \/ StreamAddOpt
    \/ StreamAddTsig
    \/ StreamAddMultiTsig
    \/ NextMessage

SpecStream == InitStream /\ [][NextStream]_vars

(***************************************************************************)
(* Properties of the TSIG calls.                                           *)
(***************************************************************************)
ValidKeys == {k \in Keys : k.valid}

\* The key name written in full at offset start, followed by the TSIG type.
FullKeyNameAt(wire, start, keyname) ==
    /\ start + 5 <= Len(wire)
    /\ SubSeq(wire, start + 1, start + 3) = <<1, LabelByte(keyname), 0>>
    /\ SubSeq(wire, start + 4, start + 5) = U16(250)

\* A compression pointer to offset target at offset start, followed by the
\* TSIG type.
PointerAt(wire, start, target) ==
    /\ start + 4 <= Len(wire)
    /\ SubSeq(wire, start + 1, start + 2)
         = <<192 + (target \div 256), target % 256>>
    /\ SubSeq(wire, start + 3, start + 4) = U16(250)

\* C11: when the message was padded, add_tsig and add_multi_tsig write the key
\* name without the compression table: the table is left as it was and the
\* result is what it would be with an empty table, the key name in full.  When
\* the message was not padded the table is used: a key name in the table is
\* written as a pointer to its entry, and one not in the table is written in
\* full and entered at the offset where the record starts.
C11_TsigKeyNameCompression ==
    \A keyname \in Names, secret \in ValidKeys, time \in Times,
       multi \in BOOLEAN :
        LET Call(self) ==
                IF multi
                THEN add_multi_tsig(self, ctx, keyname, secret, 300, id, 0,
                                    <<>>, <<>>, time)
                ELSE add_tsig(self, keyname, secret, 300, id, 0, <<>>, <<>>,
                              time)
            r == Call(Self)
            bare == Call([Self EXCEPT !.compress = EmptyTable])
            start == Len(output)
        IN r.exc = "None" =>
             IF was_padded
             THEN /\ r.self.compress = compress
                  /\ bare.exc = "None"
                  /\ r.self.output = bare.self.output
                  /\ FullKeyNameAt(r.self.output, start, keyname)
             ELSE IF keyname \in DOMAIN compress
             THEN /\ r.self.compress = compress
                  /\ PointerAt(r.self.output, start, compress[keyname])
             ELSE /\ DOMAIN r.self.compress = DOMAIN compress \cup {keyname}
                  /\ r.self.compress[keyname] = start
                  /\ \A k \in DOMAIN compress :
                        r.self.compress[k] = compress[k]
                  /\ FullKeyNameAt(r.self.output, start, keyname)

\* C11 witness: a padded message whose question name is the key name has been
\* signed; the key name stands in full after the OPT record, and the table
\* still holds the question's entry alone.
C11_Witness ==
    /\ IsTsig(last) /\ last.exc = "None"
    /\ was_padded
    /\ counts[ADDITIONAL] = 2
    /\ DOMAIN compress = {"a"}
    /\ compress["a"] = HeaderLen
    /\ \E start \in (HeaderLen + 7)..Len(output) :
          FullKeyNameAt(output, start, "a")

\* C12: after an add_tsig or add_multi_tsig call that returned, the 16-bit
\* field at offset 10 is the ADDITIONAL count with the TSIG record counted
\* (the count before plus one), the cursor is at the end of the buffer, and
\* every other byte that was in the buffer before the call is as it was.
C12_TsigPatchesCount ==
    [][(IsTsig(last') /\ last'.exc = "None") =>
         /\ counts'[ADDITIONAL] = counts[ADDITIONAL] + 1
         /\ output'[11] * 256 + output'[12] = counts[ADDITIONAL] + 1
         /\ cursor' = Len(output')
         /\ Len(output') > Len(output)
         /\ \A i \in 1..Len(output) :
               i \notin {11, 12} => output'[i] = output[i]]_vars

\* C12 witness: a TSIG was added after write_header() to a message with a
\* question and an OPT record; the header keeps the id that write_header put
\* there and its last field counts both additional records.
C12_Witness ==
    /\ IsTsig(last) /\ last.exc = "None"
    /\ hdr_written
    /\ SubSeq(output, 1, 2) = U16(id)
    /\ counts[QUESTION] = 1
    /\ SubSeq(output, 11, 12) = U16(2)
    /\ cursor = Len(output)

\* C13: an add_multi_tsig call that returns has given the signer the buffer
\* as it was, the context the caller held and multi = TRUE: the context the
\* caller holds afterwards is the one that signing produced, and the MAC in
\* the record written is that signing's.  The caller's context is touched by
\* no other call.
C13_MultiTsigContext ==
    [][/\ (last'.op = "multi_tsig" /\ last'.exc = "None") =>
            \E keyname \in Names, secret \in ValidKeys, time \in Times :
                LET tsig_0 == _make_tsig(keyname, AlgorithmName, 0, 300, <<>>,
                                         id, 0, <<>>)
                    signed == Sign(secret, output, tsig_0, time, <<>>, ctx,
                                   TRUE)
                IN /\ signed.exc = "None"
                   /\ ctx' = signed.ctx
                   /\ output'[Len(output') - 6] = signed.tsig.mac[1]
       /\ ~(last'.op = "multi_tsig" /\ last'.exc = "None") => ctx' = ctx]_vars

\* C13 witness: the second message of a stream has been signed with
\* add_multi_tsig, after a question, with a context in the caller's hands.
C13_Witness ==
    /\ messages = 2
    /\ last = [op |-> "multi_tsig", arg |-> ADDITIONAL, exc |-> "None"]
    /\ counts[QUESTION] = 1
    /\ counts[ADDITIONAL] = 1
    /\ ctx # NoCtx

\* The contexts a signing can hand back: the digests.
Contexts == 0..6

C25_ContinuableAfterTooBig ==
    /\ [][(IsContent(last') /\ last'.exc = "TooBig") =>
             counts' = counts /\ output' = output]_vars
    /\ [](IsContent(last) /\ last.exc = "TooBig" =>
             \A rrset \in RRsets :
                 LET wire == RRset_to_wire(Self, rrset).self.output
                     r == add_rrset(Self, last.arg, rrset)
                 IN Len(wire) <= max_size =>
                      /\ r.exc = "None"
                      /\ r.self.output = wire
                      /\ SubSeq(wire, 1, Len(output)) = output
                      /\ r.self.counts =
                           [counts EXCEPT ![last.arg] = @ + rrset.n])

\* C25 witness: with part of the size reserved, an answer that does not fit
\* after the question was refused; the question is still counted alone, and a
\* smaller answer fits and goes right after the question.
C25_Witness ==
    /\ last = [op |-> "add", arg |-> ANSWER, exc |-> "TooBig"]
    /\ reserved > 0
    /\ counts = [NoCounts EXCEPT ![QUESTION] = 1]
    /\ Len(output) = HeaderLen + 7
    /\ add_rrset(Self, ANSWER, RR("a", 1)).exc = "None"
    /\ Len(add_rrset(Self, ANSWER, RR("a", 1)).self.output) > Len(output)

\* C26 as claimed: a content-adding call that raises TooBig leaves the current
\* section and the was_padded flag as they were.
C26_TooBigKeepsSectionAndPadding ==
    [][(IsContent(last') /\ last'.exc = "TooBig") =>
          section' = section /\ was_padded' = was_padded]_vars

\* C26 witness: after a question, an rrset for the ADDITIONAL section was
\* refused as too big.  The Renderer now stands in the ADDITIONAL section: an
\* answer that fits, which it would have taken before the failed call, is
\* refused with FormError.
C26_Witness ==
    /\ last = [op |-> "add", arg |-> ADDITIONAL, exc |-> "TooBig"]
    /\ counts = [NoCounts EXCEPT ![QUESTION] = 1]
    /\ section = ADDITIONAL
    /\ add_rrset(Self, ANSWER, RR("a", 1)).exc = "FormError"
    /\ add_rrset([Self EXCEPT !.section = QUESTION], ANSWER,
                 RR("a", 1)).exc = "None"

(***************************************************************************)
(* Renderers of every size limit from the bare header up, filled with      *)
(* questions and rrsets.                                                   *)
(***************************************************************************)
SizeLimits == HeaderLen..(2 * MaxOutput)

\* Renderer.__init__(id, flags, max_size)
InitSizes ==
    /\ output = Zeros(HeaderLen)
    /\ cursor = HeaderLen
    /\ compress = EmptyTable
    /\ section = QUESTION
    /\ counts = NoCounts
    /\ max_size \in SizeLimits
    /\ reserved = 0
    /\ was_padded = FALSE
    /\ id \in Ids
    /\ flags \in FlagsValues
    /\ ctx = NoCtx
    /\ last = [op |-> "__init__", arg |-> 0, exc |-> "None"]
    /\ created = max_size
    /\ written = NoCounts
    /\ hdr_written = FALSE
    /\ tsig_done = FALSE
    /\ faults = 0
    /\ messages = 1
    /\ NoSets
    /\ NoSerials
    /\ NoImmutables
    /\ NoDdr

NextSizes ==
    \/ AddQuestion
    \/ AddRRset
    \/ AddRdataset

SpecSizes == InitSizes /\ [][NextSizes]_vars

\* C27: a content-adding call that the section order allows and whose write
\* goes through returns exactly when the buffer, with the record written, is
\* no longer than max_size, and raises TooBig exactly when it is longer: a
\* record that ends at max_size is taken and counted, one that ends a byte
\* beyond is refused.
C27_FitsExactly ==
    /\ \A sec \in section..ADDITIONAL, rrset \in RRsets :
          \A r \in {add_rrset(Self, sec, rrset)} :
             /\ r.exc \in {"None", "TooBig"}
             /\ r.exc = "None" =>
                   /\ Len(r.self.output) <= max_size
                   /\ r.self.counts[sec] = counts[sec] + rrset.n
             /\ r.exc = "TooBig" =>
                   /\ Len(RRset_to_wire(Self, rrset).self.output) > max_size
                   /\ r.self.output = output
                   /\ r.self.counts = counts
    /\ \A q \in Questions :
          \A r \in {add_question(Self, q.qname, q.rdtype, 1)} :
             (section = QUESTION /\ FitsU16(q.rdtype)) =>
               /\ r.exc \in {"None", "TooBig"}
               /\ r.exc = "None" =>
                     /\ Len(r.self.output) <= max_size
                     /\ r.self.counts[QUESTION] = counts[QUESTION] + 1
               /\ r.exc = "TooBig" =>
                     /\ Len(Name_to_wire(Self, q.qname, TRUE).output) + 4
                          > max_size
                     /\ r.self.output = output
                     /\ r.self.counts = counts

\* C27 witness: an rrset was added that ends exactly at max_size, and it is
\* counted.
C27_Witness ==
    /\ last = [op |-> "add", arg |-> ANSWER, exc |-> "None"]
    /\ Len(output) = max_size
    /\ counts[ANSWER] = 1
    /\ written[ANSWER] = 1

\* C28: write_header() sets the first 12 bytes of the buffer to id, flags and
\* the four section counts, each as a big-endian 16-bit value, and changes
\* nothing else: the length of the buffer, its bytes from offset 12 on, the
\* cursor (at the end of the buffer), the counts, the section and the
\* compression table are as before; a second call right after the first
\* leaves the buffer as the first made it.
C28_HeaderOnly ==
    [][last'.op = "write_header" =>
         LET head == <<id \div 256, id % 256, flags \div 256, flags % 256,
                       0, counts[QUESTION], 0, counts[ANSWER],
                       0, counts[AUTHORITY], 0, counts[ADDITIONAL]>>
         IN /\ last'.exc = "None"
            /\ Len(output') = Len(output)
            /\ output' = head \o SubSeq(output, HeaderLen + 1, Len(output))
            /\ cursor' = cursor
            /\ cursor' = Len(output')
            /\ counts' = counts
            /\ section' = section
            /\ compress' = compress
            /\ id' = id /\ flags' = flags
            /\ write_header(Self').self.output = output'
            /\ write_header(Self').self.cursor = cursor']_vars

\* C28 witness: the header was written over a message that has records after
\* offset 12 and a name in the compression table; the header holds the id,
\* the flags and the counts of one question and a set of answers.
C28_Witness ==
    /\ last = [op |-> "write_header", arg |-> 0, exc |-> "None"]
    /\ Len(output) > HeaderLen
    /\ compress # EmptyTable
    /\ counts[QUESTION] = 1
    /\ counts[ANSWER] = MaxRdatas
    /\ HeaderCounts(output) = counts
    /\ SubSeq(output, 1, 4) = <<1, 2, 129, 128>>

(***************************************************************************)
(* Padding: questions and records of any section, then OPT records written *)
(* by add_opt with and without a block size.                               *)
(***************************************************************************)
NextPadding ==
    \/ AddQuestion
    \/ AddRRset
    \/ AddOpt

SpecPadding == Init /\ [][NextPadding]_vars

\* The number of padding bytes that makes the buffer length plus opt_size plus
\* tsig_size a multiple of pad.
PaddingLength(c) ==
    CHOOSE k \in 0..(c.pad - 1) :
        (Len(output) + c.opt_size + c.tsig_size + k) % c.pad = 0

\* The call add_opt(opt, c.pad, c.opt_size, c.tsig_size) in this state is the
\* write of opt with one PADDING option of PaddingLength(c) zero bytes after
\* its options, in a message marked as padded; with pad = 0 it is the write
\* of opt as it is, and was_padded is left alone.
PadsAsComputed(opt, c) ==
    \A r \in {add_opt(Self, opt, c.pad, c.opt_size, c.tsig_size)} :
        IF c.pad # 0
        THEN /\ r = add_rrset([Self EXCEPT !.was_padded = TRUE], ADDITIONAL,
                              _make_opt(opt.ttl, opt.rdclass,
                                        Append(opt.options,
                                               [otype |-> PADDING,
                                                data |-> Zeros(PaddingLength(c))])))
             /\ r.self.was_padded
        ELSE /\ r = add_rrset(Self, ADDITIONAL, opt)
             /\ r.self.was_padded = was_padded

\* C29 as stated: every add_opt call pads as computed.
C29_PaddingArithmetic ==
    \A opt \in Opts, c \in OptCalls : PadsAsComputed(opt, c)

\* C29: add_opt with pad # 0 and opt_size >= 11 appends to the OPT's options
\* one PADDING option of k zero bytes, k the least number that makes buffer
\* length + opt_size + tsig_size + k a multiple of pad (0 when it already
\* is one), and marks the message as padded, also when k = 0; with
\* opt_size < 11 it raises AssertionError and changes nothing; with pad = 0
\* the OPT is written with its options as they are and was_padded is left
\* alone.
C29_PaddingArithmeticWhenSized ==
    \A opt \in Opts, c \in OptCalls :
        IF c.pad # 0 /\ c.opt_size < 11
        THEN add_opt(Self, opt, c.pad, c.opt_size, c.tsig_size)
               = Raise(Self, "AssertionError")
        ELSE PadsAsComputed(opt, c)

\* C29 witness: an OPT was written with pad # 0 into a message whose size
\* was already a multiple of pad: the record ends with a PADDING
\* option of length 0 and the message is marked as padded.
C29_Witness ==
    /\ last = [op |-> "add", arg |-> ADDITIONAL, exc |-> "None"]
    /\ was_padded
    /\ counts[ADDITIONAL] = 1
    /\ SubSeq(output, Len(output) - 3, Len(output)) = <<0, PADDING, 0, 0>>

\* C30: in every reachable state, after calls that returned and calls that
\* raised and were rolled back, every offset in the compression table is
\* smaller than the length of the buffer: no entry points at discarded bytes.
C30_TableWithinBuffer ==
    \A k \in DOMAIN compress : compress[k] < Len(output)

\* C30 witness: a set of records with a new owner name was written to the
\* ANSWER section and rolled back (there was room for any set whose owner is
\* in the table, so the one that raised TooBig entered its owner at the start
\* of the record); the table holds the earlier name alone.
C30_Witness ==
    /\ last = [op |-> "add", arg |-> ANSWER, exc |-> "TooBig"]
    /\ max_size - Len(output) >= 16
    /\ DOMAIN compress = {"a"}
    /\ counts[QUESTION] = 1

(***************************************************************************)
(* EDNS: questions and records, then OPT records written by add_edns with  *)
(* versions and flags that cover every group of bits of the flags word:    *)
(* the low 16 bits, the version field (bits 16-23) and the bits above it.  *)
(***************************************************************************)
AnyEdnsVersions == {0, 1, 255}
AnyEdnsFlags == {0, 32768, 16711680, 33521664, 2130771967}

AddEdnsAny ==
    \E edns \in AnyEdnsVersions, ednsflags \in AnyEdnsFlags,
       options \in OptionLists :
        /\ Content(add_edns(Self, edns, ednsflags, DEFAULT_EDNS_PAYLOAD,
                            options), "add", ADDITIONAL)
        /\ UNCHANGED <<ctx, tsig_done>>

NextEdns ==
    \/ AddQuestion
    \/ AddRRset
    \/ AddEdnsAny

SpecEdns == Init /\ [][NextEdns]_vars

\* f with its bits 16-23 replaced by v: the low 16 bits of f, v, and the
\* bits of f from bit 24 up.
WithVersion(f, v) ==
    (f \div 16777216) * 16777216 + v * 65536 + (f % 65536)

\* C31: add_edns(v, f, payload, options) is the write, to the ADDITIONAL
\* section, of an OPT whose flags word is f with bits 16-23 replaced by v
\* (the other bits of f kept, the version that was in f dropped), without a
\* PADDING option, and it leaves was_padded as it was.
C31_VersionMerged ==
    \A v \in AnyEdnsVersions, f \in AnyEdnsFlags, options \in OptionLists :
        \A r \in {add_edns(Self, v, f, DEFAULT_EDNS_PAYLOAD, options)} :
            /\ r = add_rrset(Self, ADDITIONAL,
                             _make_opt(WithVersion(f, v), DEFAULT_EDNS_PAYLOAD,
                                       options))
            /\ r.self.was_padded = was_padded
            /\ r.exc = "None" =>
                  SubSeq(r.self.output, Len(output) + 6, Len(output) + 9)
                    = U32(WithVersion(f, v))

\* C31 witness: add_edns wrote, after a question, an OPT without options for
\* version 1 and flags 0x01FF8000: its flags word is 0x01018000 and the
\* message is not marked as padded.
C31_Witness ==
    /\ last = [op |-> "add", arg |-> ADDITIONAL, exc |-> "None"]
    /\ ~was_padded
    /\ counts = [i \in Sections |-> IF i \in {QUESTION, ADDITIONAL} THEN 1 ELSE 0]
    /\ SubSeq(output, Len(output) - 10, Len(output))
         = <<0, 0, 41, 4, 208, 1, 1, 128, 0, 0, 0>>

\* C38: whatever reserve and release_reserved calls were made, accepted or
\* refused, max_size + reserved is the max_size the Renderer was created
\* with, 0 <= max_size <= that, and reserved >= 0; a reserve that returns
\* adds its size to reserved, and one release_reserved gives back all that
\* is reserved.
C38_ReserveBudget ==
    /\ [](/\ max_size + reserved = created
          /\ 0 <= max_size /\ max_size <= created
          /\ reserved >= 0)
    /\ [][/\ (last'.op = "reserve" /\ last'.exc = "None") =>
                reserved' = reserved + last'.arg
          /\ (last'.op = "reserve" /\ last'.exc # "None") =>
                reserved' = reserved /\ max_size' = max_size
          /\ last'.op = "release_reserved" =>
                reserved' = 0 /\ max_size' = created]_vars

\* C38 witness: two reserves have taken all of max_size between them, and a
\* third, of one byte, was refused.
C38_Witness ==
    /\ last = [op |-> "reserve", arg |-> 1, exc |-> "ValueError"]
    /\ reserved = 2 * ReserveChunk
    /\ max_size = 0
    /\ created = reserved

\* C39: between calls the position of the output buffer is its end, after
\* calls that returned, calls that were rolled back, write_header and the
\* TSIG calls: the position a size-tracked write starts from is the length
\* of the buffer before the call.
C39_CursorAtEnd == cursor = Len(output)

\* C39 witness: after the header had been written over a message with a
\* question, a set of records for the AUTHORITY section was rolled back; the
\* position is the end of the buffer as it was before that call.
C39_Witness ==
    /\ last = [op |-> "add", arg |-> AUTHORITY, exc |-> "TooBig"]
    /\ hdr_written
    /\ counts[QUESTION] = 1
    /\ Len(output) > HeaderLen
    /\ cursor = Len(output)
    /\ HeaderCounts(output)[QUESTION] = 1

(***************************************************************************)
(* dns.set.Set.  A Set object has one field, items, a dict used for its    *)
(* keys: the keys of a dict iterate in insertion order, assigning to a key *)
(* that is present keeps its place, and deleting a key keeps the order of  *)
(* the others.  Objects live in a heap h: h.items[s] is the dict of Set    *)
(* object s and h.dicts[d] the keys of dict d in iteration order, so that  *)
(* two Set objects sharing one dict can be told from two with equal keys.  *)
(* A method is an operator from a heap to a result [h, exc, ret].          *)
(***************************************************************************)
SetOk(h) == [h |-> h, exc |-> "None", ret |-> 0]
SetRet(h, v) == [h |-> h, exc |-> "None", ret |-> v]
SetRaise(h, e) == [h |-> h, exc |-> e, ret |-> 0]

\* An argument that is not a Set: the list [1, 2].
NotASet == 0
ListValue == <<1, 2>>

\* isinstance(other, Set)
IsSet(other) == other # NotASet

\* list(self.items)
ItemsOf(h, self) == h.dicts[h.items[self]]

\* item in d
In(d, item) == \E i \in 1..Len(d) : d[i] = item

\* d[item] = None
DictSetItem(d, item) == IF In(d, item) THEN d ELSE Append(d, item)

\* del d[item] for an item that is in d, and d.pop(item, None)
DictDel(d, item) == SelectSeq(d, LAMBDA e : e # item)

\* self.items updated in place
SetItems(h, self, d) == [h EXCEPT !.dicts[h.items[self]] = d]

\* iter(other): the items of a Set, the elements of a list
Iter(h, other) == IF IsSet(other) THEN ItemsOf(h, other) ELSE ListValue

\* A Set.add that inserts the item again, at the end, when it is present.
add_moves_to_end(h, self, item) ==
    SetOk(SetItems(h, self, Append(DictDel(ItemsOf(h, self), item), item)))

\* Set.add(item)
add(h, self, item) ==
    IF ~In(ItemsOf(h, self), item)
    THEN SetOk(SetItems(h, self, DictSetItem(ItemsOf(h, self), item)))
    ELSE SetOk(h)

\* Set.remove(item)
remove(h, self, item) ==
    IF In(ItemsOf(h, self), item)
    THEN SetOk(SetItems(h, self, DictDel(ItemsOf(h, self), item)))
    ELSE SetRaise(h, "ValueError")

\* Set.discard(item)
discard(h, self, item) ==
    SetOk(SetItems(h, self, DictDel(ItemsOf(h, self), item)))

\* Set.pop(): dict.popitem() removes the key inserted last and raises KeyError
\* on an empty dict.
pop(h, self) ==
    LET d == ItemsOf(h, self)
    IN IF d = <<>> THEN SetRaise(h, "KeyError")
       ELSE SetRet(SetItems(h, self, SubSeq(d, 1, Len(d) - 1)), d[Len(d)])

\* Set.clear()
clear(h, self) == SetOk(SetItems(h, self, <<>>))

\* for item in pending: self.add(item)
RECURSIVE AddEach(_, _, _)
AddEach(h, self, pending) ==
    IF pending = <<>> THEN h
    ELSE AddEach(add(h, self, Head(pending)).h, self, Tail(pending))

\* A _clone whose object takes the receiver's dict as its own.
_clone_shares(h, self) ==
    SetRet([h EXCEPT !.items = Append(h.items, h.items[self])],
           Len(h.items) + 1)

\* Set._clone(): a new object with a new dict, filled from self.items.
_clone(h, self) ==
    LET obj == Len(h.items) + 1
        d == Len(h.dicts) + 1
        h1 == [items |-> Append(h.items, d), dicts |-> Append(h.dicts, <<>>)]
    IN SetRet(AddEach(h1, obj, ItemsOf(h, self)), obj)

\* Set.copy()
copy(h, self) == _clone(h, self)

\* Set.update(other), other any iterable
update(h, self, other) == SetOk(AddEach(h, self, Iter(h, other)))

\* A union_update that returns after the first item of other.
union_update_first(h, self, other) ==
    IF ~IsSet(other) THEN SetRaise(h, "ValueError")
    ELSE IF self = other THEN SetOk(h)
    ELSE IF ItemsOf(h, other) = <<>> THEN SetOk(h)
    ELSE add(h, self, Head(ItemsOf(h, other)))

\* A union_update without the test that other is a Set.
union_update_any(h, self, other) ==
    IF self = other THEN SetOk(h)
    ELSE SetOk(AddEach(h, self, Iter(h, other)))

\* Set.union_update(other)
union_update(h, self, other) ==
    IF ~IsSet(other) THEN SetRaise(h, "ValueError")
    ELSE IF self = other THEN SetOk(h)
    ELSE SetOk(AddEach(h, self, ItemsOf(h, other)))

\* for item in pending: if item not in other.items: del self.items[item]
RECURSIVE KeepEach(_, _, _, _)
KeepEach(h, self, other, pending) ==
    IF pending = <<>> THEN h
    ELSE KeepEach(IF ~In(ItemsOf(h, other), Head(pending))
                  THEN SetItems(h, self, DictDel(ItemsOf(h, self), Head(pending)))
                  ELSE h,
                  self, other, Tail(pending))

\* Set.intersection_update(other)
intersection_update(h, self, other) ==
    IF ~IsSet(other) THEN SetRaise(h, "ValueError")
    ELSE IF self = other THEN SetOk(h)
    ELSE SetOk(KeepEach(h, self, other, ItemsOf(h, self)))

\* for item in other.items: self.discard(item).  The iterator over a dict
\* raises RuntimeError when it is asked for the next key after the dict has
\* changed size; size is the size when the iteration began.
RECURSIVE DiscardEach(_, _, _, _, _)
DiscardEach(h, self, other, pending, size) ==
    IF Len(ItemsOf(h, other)) # size THEN SetRaise(h, "RuntimeError")
    ELSE IF pending = <<>> THEN SetOk(h)
    ELSE DiscardEach(discard(h, self, Head(pending)).h, self, other,
                     Tail(pending), size)

\* A difference_update without the test for the set itself.
difference_update_unguarded(h, self, other) ==
    IF ~IsSet(other) THEN SetRaise(h, "ValueError")
    ELSE DiscardEach(h, self, other, ItemsOf(h, other), Len(ItemsOf(h, other)))

\* Set.difference_update(other)
difference_update(h, self, other) ==
    IF ~IsSet(other) THEN SetRaise(h, "ValueError")
    ELSE IF self = other THEN clear(h, self)
    ELSE DiscardEach(h, self, other, ItemsOf(h, other), Len(ItemsOf(h, other)))

\* Set.intersection(other)
intersection(h, self, other) ==
    LET obj == _clone(h, self)
        r == intersection_update(obj.h, obj.ret, other)
    IN IF r.exc # "None" THEN r ELSE SetRet(r.h, obj.ret)

\* A symmetric_difference_update that takes the overlap after the union.
symmetric_difference_update_late_overlap(h, self, other) ==
    IF ~IsSet(other) THEN SetRaise(h, "ValueError")
    ELSE IF self = other THEN clear(h, self)
    ELSE LET u == union_update(h, self, other)
             overlap == intersection(u.h, self, other)
         IN IF u.exc # "None" THEN u
            ELSE IF overlap.exc # "None" THEN overlap
            ELSE difference_update(overlap.h, self, overlap.ret)

\* Set.symmetric_difference_update(other)
symmetric_difference_update(h, self, other) ==
    IF ~IsSet(other) THEN SetRaise(h, "ValueError")
    ELSE IF self = other THEN clear(h, self)
    ELSE LET overlap == intersection(h, self, other)
             u == union_update(overlap.h, self, other)
         IN IF overlap.exc # "None" THEN overlap
            ELSE IF u.exc # "None" THEN u
            ELSE difference_update(u.h, self, overlap.ret)

\* Set.union(other)
union(h, self, other) ==
    LET obj == _clone(h, self)
        r == union_update(obj.h, obj.ret, other)
    IN IF r.exc # "None" THEN r ELSE SetRet(r.h, obj.ret)

\* Set.difference(other)
difference(h, self, other) ==
    LET obj == _clone(h, self)
        r == difference_update(obj.h, obj.ret, other)
    IN IF r.exc # "None" THEN r ELSE SetRet(r.h, obj.ret)

\* Set.symmetric_difference(other)
symmetric_difference(h, self, other) ==
    LET obj == _clone(h, self)
        r == symmetric_difference_update(obj.h, obj.ret, other)
    IN IF r.exc # "None" THEN r ELSE SetRet(r.h, obj.ret)

\* The set of the keys of a dict.
KeySet(d) == {d[i] : i \in 1..Len(d)}

\* Set.__eq__(other): two dicts with None values are equal when they have the
\* same keys, in whatever order.
__eq__(h, self, other) ==
    IF ~IsSet(other) THEN FALSE
    ELSE KeySet(ItemsOf(h, self)) = KeySet(ItemsOf(h, other))

\* Set.__len__()
__len__(h, self) == Len(ItemsOf(h, self))

\* Set.issubset(other)
issubset(h, self, other) ==
    IF ~IsSet(other) THEN SetRaise(h, "ValueError")
    ELSE SetRet(h, \A i \in 1..Len(ItemsOf(h, self)) :
                     In(ItemsOf(h, other), ItemsOf(h, self)[i]))

\* Set.issuperset(other)
issuperset(h, self, other) ==
    IF ~IsSet(other) THEN SetRaise(h, "ValueError")
    ELSE SetRet(h, \A i \in 1..Len(ItemsOf(h, other)) :
                     In(ItemsOf(h, self), ItemsOf(h, other)[i]))

\* Set.isdisjoint(other)
isdisjoint(h, self, other) ==
    IF ~IsSet(other) THEN SetRaise(h, "ValueError")
    ELSE SetRet(h, \A i \in 1..Len(ItemsOf(h, other)) :
                     ~In(ItemsOf(h, self), ItemsOf(h, other)[i]))

\* A __getitem__ that counts an index past the end on from the start again.
__getitem__wraps(h, self, i) ==
    IF i < 0 THEN SetRaise(h, "ValueError")
    ELSE IF ItemsOf(h, self) = <<>> THEN SetRaise(h, "StopIteration")
    ELSE SetRet(h, ItemsOf(h, self)[(i % Len(ItemsOf(h, self))) + 1])

\* Set.__getitem__(i) for an int i: next(itertools.islice(self.items, i, i + 1)).
\* islice refuses a negative index with ValueError, and next raises
\* StopIteration when the slice is empty.
__getitem__(h, self, i) ==
    IF i < 0 THEN SetRaise(h, "ValueError")
    ELSE IF i >= Len(ItemsOf(h, self)) THEN SetRaise(h, "StopIteration")
    ELSE SetRet(h, ItemsOf(h, self)[i + 1])

\* Set.__delitem__(i) for an int i: del self.items[self[i]]
__delitem__(h, self, i) ==
    LET item == __getitem__(h, self, i)
    IN IF item.exc # "None" THEN item
       ELSE SetOk(SetItems(h, self, DictDel(ItemsOf(h, self), item.ret)))

(***************************************************************************)
(* The Set state machine: the caller holds three Sets, x, y and z.  x is   *)
(* the receiver of every method, y and z are arguments that the caller     *)
(* also adds to and discards from, and z is rebound to each new Set that a *)
(* method of x returns.                                                    *)
(***************************************************************************)
X == 1
Y == 2
Z == 3
SetObjects == {X, Y, Z}
Items == 1..MaxItem
\* What callers pass as other: the list, x or y.
Others == {NotASet, X, Y}
\* What callers pass to Set(items).
InitialItems == {<<>>, <<2, 1, 2>>}

\* The Renderer's variables where no Renderer is in use.
NoRenderer ==
    /\ output = <<>>
    /\ cursor = 0
    /\ compress = EmptyTable
    /\ section = QUESTION
    /\ counts = NoCounts
    /\ max_size = 0
    /\ reserved = 0
    /\ was_padded = FALSE
    /\ id = 0
    /\ flags = 0
    /\ ctx = NoCtx
    /\ last = [op |-> "none", arg |-> 0, exc |-> "None"]
    /\ created = 0
    /\ written = NoCounts
    /\ hdr_written = FALSE
    /\ tsig_done = FALSE
    /\ faults = 0
    /\ messages = 0

\* Set.__init__(items): an empty dict, then add(item) for each item.
__init__(h, items) ==
    LET obj == Len(h.items) + 1
        h1 == [items |-> Append(h.items, Len(h.dicts) + 1),
               dicts |-> Append(h.dicts, <<>>)]
    IN SetRet(AddEach(h1, obj, items), obj)

\* x = Set(items); y = Set(); z = Set()
InitSet ==
    /\ NoRenderer
    /\ NoSerials
    /\ NoImmutables
    /\ NoDdr
    /\ \E items \in InitialItems :
          heap = __init__(__init__(__init__([items |-> <<>>, dicts |-> <<>>],
                                            items).h, <<>>).h, <<>>).h
    /\ slast = [op |-> "__init__", self |-> X, other |-> 0, exc |-> "None",
                ret |-> 0]

\* The objects that are garbage once the call is over are dropped.
Settle(h) == [items |-> SubSeq(h.items, 1, 3), dicts |-> SubSeq(h.dicts, 1, 3)]

\* z = obj: z now names the object the call returned.
Bind(h, obj) ==
    IF h.items[obj] > 3
    THEN [items |-> <<h.items[X], h.items[Y], 3>>,
          dicts |-> <<h.dicts[1], h.dicts[2], h.dicts[h.items[obj]]>>]
    ELSE [items |-> <<h.items[X], h.items[Y], h.items[obj]>>,
          dicts |-> SubSeq(h.dicts, 1, 3)]

\* A call self.op(other) that returned r.
SetCall(r, op, self, other) ==
    /\ heap' = Settle(r.h)
    /\ slast' = [op |-> op, self |-> self, other |-> other, exc |-> r.exc,
                 ret |-> r.ret]
    /\ UNCHANGED <<RendererVars, SerialVars, ImmutableVars, DdrVars>>

\* z = x.op(other)
SetBind(r, op, other) ==
    /\ heap' = IF r.exc = "None" THEN Bind(r.h, r.ret) ELSE Settle(r.h)
    /\ slast' = [op |-> op, self |-> X, other |-> other, exc |-> r.exc,
                 ret |-> 0]
    /\ UNCHANGED <<RendererVars, SerialVars, ImmutableVars, DdrVars>>

Bool(b) == IF b THEN 1 ELSE 0
SetTest(r) == [r EXCEPT !.ret = IF r.exc = "None" THEN Bool(r.ret) ELSE 0]

SetAdd ==
    \E self \in SetObjects, item \in Items :
        SetCall(add(heap, self, item), "add", self, item)

SetRemove ==
    \E item \in Items : SetCall(remove(heap, X, item), "remove", X, item)

SetDiscard ==
    \E self \in SetObjects, item \in Items :
        SetCall(discard(heap, self, item), "discard", self, item)

SetPop == SetCall(pop(heap, X), "pop", X, 0)

SetClear == SetCall(clear(heap, X), "clear", X, 0)

SetUpdate ==
    \E other \in Others : SetCall(update(heap, X, other), "update", X, other)

SetUnionUpdate ==
    \E other \in Others :
        SetCall(union_update(heap, X, other), "union_update", X, other)

SetIntersectionUpdate ==
    \E other \in Others :
        SetCall(intersection_update(heap, X, other), "intersection_update", X,
                other)

SetDifferenceUpdate ==
    \E other \in Others :
        SetCall(difference_update(heap, X, other), "difference_update", X,
                other)

SetSymmetricDifferenceUpdate ==
    \E other \in Others :
        SetCall(symmetric_difference_update(heap, X, other),
                "symmetric_difference_update", X, other)

SetUnion ==
    \E other \in Others : SetBind(union(heap, X, other), "union", other)

SetIntersection ==
    \E other \in Others :
        SetBind(intersection(heap, X, other), "intersection", other)

SetDifference ==
    \E other \in Others :
        SetBind(difference(heap, X, other), "difference", other)

SetSymmetricDifference ==
    \E other \in Others :
        SetBind(symmetric_difference(heap, X, other), "symmetric_difference",
                other)

SetCopy == SetBind(copy(heap, X), "copy", 0)

SetIsSubset ==
    \E other \in Others :
        SetCall(SetTest(issubset(heap, X, other)), "issubset", X, other)

SetIsSuperset ==
    \E other \in Others :
        SetCall(SetTest(issuperset(heap, X, other)), "issuperset", X, other)

SetIsDisjoint ==
    \E other \in Others :
        SetCall(SetTest(isdisjoint(heap, X, other)), "isdisjoint", X, other)

NextSet ==
    \/ SetAdd
    \/ SetRemove
    \/ SetDiscard
    \/ SetPop
    \/ SetClear
    \/ SetUpdate
    \/ SetUnionUpdate
    \/ SetIntersectionUpdate
    \/ SetDifferenceUpdate
    \/ SetSymmetricDifferenceUpdate
    \/ SetUnion
    \/ SetIntersection
    \/ SetDifference
    \/ SetSymmetricDifference
    \/ SetCopy
    \/ SetIsSubset
    \/ SetIsSuperset
    \/ SetIsDisjoint

SpecSet == InitSet /\ [][NextSet]_vars

(***************************************************************************)
(* Properties of Set.                                                      *)
(***************************************************************************)
NoDuplicates(d) == \A i, j \in 1..Len(d) : i # j => d[i] # d[j]

\* The position of an item in d.
Pos(d, item) == CHOOSE i \in 1..Len(d) : d[i] = item

\* new keeps the items of old that it still has in the order they had, and
\* has every item that old did not have after all of those.
OrderKept(old, new) ==
    \A i, j \in 1..Len(new) :
        i < j =>
            /\ (In(old, new[i]) /\ In(old, new[j])) =>
                   Pos(old, new[i]) < Pos(old, new[j])
            /\ ~In(old, new[i]) => ~In(old, new[j])

InPlaceOps ==
    {"add", "remove", "discard", "pop", "update", "union_update",
     "intersection_update", "difference_update",
     "symmetric_difference_update"}
NewSetOps ==
    {"union", "intersection", "difference", "symmetric_difference", "copy"}
TestOps == {"issubset", "issuperset", "isdisjoint"}

\* C14: a Set never holds an item twice, and add, remove, discard, pop, update
\* and the *_update methods keep it in first-insertion order: the items that
\* stay keep their order and every item that comes in stands after them.
\* Adding an item that is present changes nothing, and adding one that is
\* not (never added, or removed before) puts it at the end.
C14_InsertionOrder ==
    [][/\ \A s \in SetObjects :
             NoDuplicates(ItemsOf(heap, s)) /\ NoDuplicates(ItemsOf(heap', s))
       /\ slast'.op \in InPlaceOps =>
             OrderKept(ItemsOf(heap, slast'.self), ItemsOf(heap', slast'.self))
       /\ slast'.op = "add" =>
             ItemsOf(heap', slast'.self) =
                 IF In(ItemsOf(heap, slast'.self), slast'.other)
                 THEN ItemsOf(heap, slast'.self)
                 ELSE Append(ItemsOf(heap, slast'.self), slast'.other)]_vars

\* C14 witness: x was built from [2, 1, 2] or filled in that order, lost 2 and
\* had it added again: 2 now stands after 1, while y holds the same items in
\* the other order.
C14_Witness ==
    /\ slast = [op |-> "add", self |-> X, other |-> 2, exc |-> "None",
                ret |-> 0]
    /\ ItemsOf(heap, X) = <<1, 2>>
    /\ ItemsOf(heap, Y) = <<2, 1>>

\* C15: union, intersection, difference, symmetric_difference and copy leave
\* the receiver and the argument as they were and return a Set with a dict of
\* its own; no two Sets ever share a dict, and a call that changes one Set in
\* place (the *_update methods among them) changes no other Set.
C15_NoSharedState ==
    [][/\ \A s, t \in SetObjects : s # t => heap'.items[s] # heap'.items[t]
       /\ (slast'.op \in NewSetOps /\ slast'.exc = "None") =>
             /\ ItemsOf(heap', X) = ItemsOf(heap, X)
             /\ ItemsOf(heap', Y) = ItemsOf(heap, Y)
       /\ slast'.op \in InPlaceOps =>
             \A s \in SetObjects :
                 s # slast'.self => ItemsOf(heap', s) = ItemsOf(heap, s)]_vars

\* C15 witness: z, a Set that a method of x returned, has since been added
\* to, and holds an item that x, still as it was, does not.
C15_Witness ==
    /\ slast = [op |-> "add", self |-> Z, other |-> 2, exc |-> "None",
                ret |-> 0]
    /\ ItemsOf(heap, X) = <<1>>
    /\ ItemsOf(heap, Z) = <<1, 2>>
    /\ ItemsOf(heap, Y) = <<>>

\* C16: with a, b, c the Sets x, y, z: a.union(b).union(c) == a.union(b.union(c)),
\* and for each of the three a.difference(a) and a.symmetric_difference(a) are
\* empty.
C16_SetAlgebra ==
    LET ab == union(heap, X, Y)
        ab_c == union(ab.h, ab.ret, Z)
        bc == union(ab_c.h, Y, Z)
        a_bc == union(bc.h, X, bc.ret)
    IN /\ __eq__(a_bc.h, ab_c.ret, a_bc.ret)
       /\ \A a \in SetObjects :
             LET d == difference(heap, a, a)
                 sd == symmetric_difference(heap, a, a)
             IN /\ d.exc = "None" /\ __len__(d.h, d.ret) = 0
                /\ sd.exc = "None" /\ __len__(sd.h, sd.ret) = 0

\* C16 witness: three different non-empty Sets, z being x.union(y), whose
\* order differs from that of y.union(x).
C16_Witness ==
    /\ slast.op = "union" /\ slast.other = Y /\ slast.exc = "None"
    /\ ItemsOf(heap, X) = <<1>>
    /\ ItemsOf(heap, Y) = <<2, 1>>
    /\ ItemsOf(heap, Z) = <<1, 2>>

\* C17: an in-place operation of a Set with itself returns without raising:
\* union_update and intersection_update leave the Set as it was, and
\* difference_update and symmetric_difference_update leave it empty.
C17_SelfOperation ==
    [][(slast'.op \in InPlaceOps /\ slast'.self = slast'.other) =>
         /\ slast'.op \in {"union_update", "intersection_update"} =>
               /\ slast'.exc = "None"
               /\ ItemsOf(heap', slast'.self) = ItemsOf(heap, slast'.self)
         /\ slast'.op \in {"difference_update", "symmetric_difference_update"} =>
               /\ slast'.exc = "None"
               /\ ItemsOf(heap', slast'.self) = <<>>]_vars

\* C17 witness: x.difference_update(x) has emptied x, while z, a copy taken
\* before, still has two items.
C17_Witness ==
    /\ slast = [op |-> "difference_update", self |-> X, other |-> X,
                exc |-> "None", ret |-> 0]
    /\ ItemsOf(heap, X) = <<>>
    /\ ItemsOf(heap, Z) = <<2, 1>>

BinaryOps ==
    {"union", "intersection", "difference", "symmetric_difference",
     "union_update", "intersection_update", "difference_update",
     "symmetric_difference_update", "issubset", "issuperset", "isdisjoint"}

\* C18: a binary operation called with an argument that is not a Set raises
\* ValueError and leaves every Set as it was.
C18_NotASetRejected ==
    [][(slast'.op \in BinaryOps /\ slast'.other = NotASet) =>
         /\ slast'.exc = "ValueError"
         /\ heap' = heap]_vars

\* C18 witness: symmetric_difference with a list was refused on a non-empty x.
C18_Witness ==
    /\ slast = [op |-> "symmetric_difference", self |-> X, other |-> NotASet,
                exc |-> "ValueError", ret |-> 0]
    /\ ItemsOf(heap, X) = <<2, 1>>

\* The items of d that are (keep) or are not (~keep) in e, in d's order.
Those(d, e, keep) == SelectSeq(d, LAMBDA item : In(e, item) = keep)

\* What a binary operation of a Set with items a and another with items b
\* has to give: a's surviving items in a's order, then b's new items in b's
\* order.
Expected(op, a, b) ==
    CASE op = "union" -> a \o Those(b, a, FALSE)
      [] op = "intersection" -> Those(a, b, TRUE)
      [] op = "difference" -> Those(a, b, FALSE)
      [] op = "symmetric_difference" -> Those(a, b, FALSE) \o Those(b, a, FALSE)

\* The result of a.op_update(b) and that of a.op(b).
InPlace(op, h, a, b) ==
    CASE op = "union" -> union_update(h, a, b)
      [] op = "intersection" -> intersection_update(h, a, b)
      [] op = "difference" -> difference_update(h, a, b)
      [] op = "symmetric_difference" -> symmetric_difference_update(h, a, b)

NewSet(op, h, a, b) ==
    CASE op = "union" -> union(h, a, b)
      [] op = "intersection" -> intersection(h, a, b)
      [] op = "difference" -> difference(h, a, b)
      [] op = "symmetric_difference" -> symmetric_difference(h, a, b)

AlgebraOps == {"union", "intersection", "difference", "symmetric_difference"}

\* C32: for two different Sets a and b, a.op_update(b) leaves in a, and
\* a.op(b) returns a Set that holds, the items of the union, intersection,
\* difference or symmetric difference of a and b: the items of a that stay,
\* in a's order, then the items that come from b, in b's order.  b is left
\* as it was, and so is a by the methods that return a new Set.
C32_SetOperations ==
    \A a, b \in SetObjects : \A op \in AlgebraOps :
        a # b =>
          /\ \A r \in {InPlace(op, heap, a, b)} :
                /\ r.exc = "None"
                /\ ItemsOf(r.h, a)
                     = Expected(op, ItemsOf(heap, a), ItemsOf(heap, b))
                /\ ItemsOf(r.h, b) = ItemsOf(heap, b)
          /\ \A r \in {NewSet(op, heap, a, b)} :
                /\ r.exc = "None"
                /\ ItemsOf(r.h, r.ret)
                     = Expected(op, ItemsOf(heap, a), ItemsOf(heap, b))
                /\ ItemsOf(r.h, a) = ItemsOf(heap, a)
                /\ ItemsOf(r.h, b) = ItemsOf(heap, b)

\* C32 witness: x.symmetric_difference_update(y) returned, for an x and a y
\* that had an item in common (y has it, x has lost it) and an item not in
\* common (x is not empty): x is neither empty nor the union.
C32_Witness ==
    /\ slast = [op |-> "symmetric_difference_update", self |-> X, other |-> Y,
                exc |-> "None", ret |-> 0]
    /\ ItemsOf(heap, X) = <<1>>
    /\ ItemsOf(heap, Y) = <<2>>

(***************************************************************************)
(* Indexing: the caller fills and empties x, y and z item by item and      *)
(* reads and deletes items of x by index.                                  *)
(***************************************************************************)
Indexes == -1..MaxItem

SetGetItem ==
    \E i \in Indexes :
        /\ SetCall(__getitem__(heap, X, i), "__getitem__", X, i)
        /\ slast'.op = "__getitem__"

SetDelItem ==
    \E i \in Indexes :
        /\ SetCall(__delitem__(heap, X, i), "__delitem__", X, i)
        /\ slast'.op = "__delitem__"

NextIndex ==
    \/ SetAdd
    \/ SetDiscard
    \/ SetGetItem
    \/ SetDelItem

SpecIndex == InitSet /\ [][NextIndex]_vars

Serial(value, bits) ==
    [kind |-> "Serial", value |-> value % Pow(2, bits), bits |-> bits]

PyInt(value) == [kind |-> "int", value |-> value]

\* is_serial(obj)
is_serial(obj) == obj.kind = "Serial"

PyBool(b) == IF b THEN "True" ELSE "False"

\* A Serial.__eq__ that compares the values of Serials of any two widths.
Serial__eq__any_width(self, other) ==
    IF other.kind = "int"
    THEN PyBool(self.value = Serial(other.value, self.bits).value)
    ELSE IF ~is_serial(other) THEN "NotImplemented"
    ELSE PyBool(self.value = other.value)

\* Serial.__eq__(other)
Serial__eq__(self, other) ==
    IF other.kind = "int"
    THEN PyBool(self.value = Serial(other.value, self.bits).value)
    ELSE IF ~is_serial(other) \/ other.bits # self.bits THEN "NotImplemented"
    ELSE PyBool(self.value = other.value)

\* Serial.__ne__(other)
Serial__ne__(self, other) ==
    IF other.kind = "int"
    THEN PyBool(self.value # Serial(other.value, self.bits).value)
    ELSE IF ~is_serial(other) \/ other.bits # self.bits THEN "NotImplemented"
    ELSE PyBool(self.value # other.value)

\* A Serial.__lt__ that orders the values as plain integers.
Serial__lt__linear(self, other_arg) ==
    LET other == IF other_arg.kind = "int"
                 THEN Serial(other_arg.value, self.bits)
                 ELSE other_arg
    IN IF ~is_serial(other) \/ other.bits # self.bits THEN "NotImplemented"
       ELSE PyBool(self.value < other.value)

\* A Serial.__lt__ that counts a distance of exactly half the ring as less.
Serial__lt__inclusive(self, other_arg) ==
    LET other == IF other_arg.kind = "int"
                 THEN Serial(other_arg.value, self.bits)
                 ELSE other_arg
    IN IF ~is_serial(other) \/ other.bits # self.bits THEN "NotImplemented"
       ELSE IF self.value < other.value
               /\ other.value - self.value <= Pow(2, self.bits - 1)
       THEN "True"
       ELSE IF self.value > other.value
               /\ self.value - other.value > Pow(2, self.bits - 1)
       THEN "True"
       ELSE "False"

\* Serial.__lt__(other_arg)
Serial__lt__(self, other_arg) ==
    LET other == IF other_arg.kind = "int"
                 THEN Serial(other_arg.value, self.bits)
                 ELSE other_arg
    IN IF ~is_serial(other) \/ other.bits # self.bits THEN "NotImplemented"
       ELSE IF self.value < other.value
               /\ other.value - self.value < Pow(2, self.bits - 1)
       THEN "True"
       ELSE IF self.value > other.value
               /\ self.value - other.value > Pow(2, self.bits - 1)
       THEN "True"
       ELSE "False"

\* A Serial.__gt__ that counts a distance of exactly half the ring as
\* greater.
Serial__gt__inclusive(self, other_arg) ==
    LET other == IF other_arg.kind = "int"
                 THEN Serial(other_arg.value, self.bits)
                 ELSE other_arg
    IN IF ~is_serial(other) \/ other.bits # self.bits THEN "NotImplemented"
       ELSE IF self.value < other.value
               /\ other.value - self.value > Pow(2, self.bits - 1)
       THEN "True"
       ELSE IF self.value > other.value
               /\ self.value - other.value <= Pow(2, self.bits - 1)
       THEN "True"
       ELSE "False"

\* Serial.__gt__(other_arg)
Serial__gt__(self, other_arg) ==
    LET other == IF other_arg.kind = "int"
                 THEN Serial(other_arg.value, self.bits)
                 ELSE other_arg
    IN IF ~is_serial(other) \/ other.bits # self.bits THEN "NotImplemented"
       ELSE IF self.value < other.value
               /\ other.value - self.value > Pow(2, self.bits - 1)
       THEN "True"
       ELSE IF self.value > other.value
               /\ self.value - other.value < Pow(2, self.bits - 1)
       THEN "True"
       ELSE "False"

\* What a method of operand a answers to operator op; an int knows nothing of
\* Serials.
Method(op, a, b) ==
    IF a.kind = "int" THEN "NotImplemented"
    ELSE CASE op = "==" -> Serial__eq__(a, b)
           [] op = "!=" -> Serial__ne__(a, b)
           [] op = "<" -> Serial__lt__(a, b)
           [] op = ">" -> Serial__gt__(a, b)

\* The operator whose method the interpreter asks of the right operand.
Reflected(op) ==
    CASE op = "==" -> "==" [] op = "!=" -> "!=" [] op = "<" -> ">"
      [] op = ">" -> "<"

\* The expression a op b for ==, !=, < and > on two distinct objects: the left
\* operand's method, then the right operand's reflected method, and when both
\* answer NotImplemented the default, which is identity for == and !=, and
\* TypeError for an ordering.
Compare(op, a, b) ==
    IF Method(op, a, b) # "NotImplemented" THEN Method(op, a, b)
    ELSE IF Method(Reflected(op), b, a) # "NotImplemented"
    THEN Method(Reflected(op), b, a)
    ELSE CASE op = "==" -> "False"
           [] op = "!=" -> "True"
           [] OTHER -> "TypeError"

\* Serial.__le__(other): self == other or self < other
Serial__le__(self, other) ==
    IF Compare("==", self, other) = "True" THEN "True"
    ELSE Compare("<", self, other)

\* Serial.__ge__(other): self == other or self > other
Serial__ge__(self, other) ==
    IF Compare("==", self, other) = "True" THEN "True"
    ELSE Compare(">", self, other)

\* The expression a op b for a Serial a.
Expr(op, a, b) ==
    CASE op = "<=" -> Serial__le__(a, b)
      [] op = ">=" -> Serial__ge__(a, b)
      [] OTHER -> Compare(op, a, b)

\* Serial.new_with_same_bits(value)
new_with_same_bits(self, value) == Serial(value, self.bits)

Abs(x) == IF x < 0 THEN -x ELSE x

\* The largest delta a Serial of self's width may move by.
MaxDelta(self) == Pow(2, self.bits - 1) - 1

\* An arithmetic method's outcome: the exception, self after the call and the
\* object returned.
SerialOk(self, ret) == [exc |-> "None", self |-> self, ret |-> ret]
SerialRaise(self, exc) == [exc |-> exc, self |-> self, ret |-> self]

\* A Serial.__add__ that wraps around for a delta of any size.
Serial__add__unchecked(self, other) ==
    IF ~is_serial(other) /\ other.kind # "int"
    THEN SerialRaise(self, "ValueError")
    ELSE SerialOk(self, new_with_same_bits(self,
                            (self.value + other.value) % Pow(2, self.bits)))

\* Serial.__add__(other)
Serial__add__(self, other) ==
    IF ~is_serial(other) /\ other.kind # "int"
    THEN SerialRaise(self, "ValueError")
    ELSE IF Abs(other.value) > MaxDelta(self)
    THEN SerialRaise(self, "ValueError")
    ELSE SerialOk(self, new_with_same_bits(self,
                            (self.value + other.value) % Pow(2, self.bits)))

\* Serial.__iadd__(other): returns self
Serial__iadd__(self, other) ==
    IF ~is_serial(other) /\ other.kind # "int"
    THEN SerialRaise(self, "ValueError")
    ELSE IF Abs(other.value) > MaxDelta(self)
    THEN SerialRaise(self, "ValueError")
    ELSE LET v == (self.value + other.value) % Pow(2, self.bits)
         IN SerialOk([self EXCEPT !.value = v], [self EXCEPT !.value = v])

\* A Serial.__sub__ that stops at zero instead of wrapping around.
Serial__sub__saturating(self, other) ==
    IF ~is_serial(other) /\ other.kind # "int"
    THEN SerialRaise(self, "ValueError")
    ELSE IF Abs(other.value) > MaxDelta(self)
    THEN SerialRaise(self, "ValueError")
    ELSE SerialOk(self, new_with_same_bits(self,
                            Max(self.value - other.value, 0)))

\* Serial.__sub__(other)
Serial__sub__(self, other) ==
    IF ~is_serial(other) /\ other.kind # "int"
    THEN SerialRaise(self, "ValueError")
    ELSE IF Abs(other.value) > MaxDelta(self)
    THEN SerialRaise(self, "ValueError")
    ELSE SerialOk(self, new_with_same_bits(self,
                            (self.value - other.value) % Pow(2, self.bits)))

\* Serial.__isub__(other): returns self
Serial__isub__(self, other) ==
    IF ~is_serial(other) /\ other.kind # "int"
    THEN SerialRaise(self, "ValueError")
    ELSE IF Abs(other.value) > MaxDelta(self)
    THEN SerialRaise(self, "ValueError")
    ELSE LET v == (self.value - other.value) % Pow(2, self.bits)
         IN SerialOk([self EXCEPT !.value = v], [self EXCEPT !.value = v])

(***************************************************************************)
(* The Serial state machine: two operands, compared by the caller.         *)
(***************************************************************************)
BitWidths == {MaxBits - 1, MaxBits}
Serials == UNION {{Serial(v, bits) : v \in 0..(Pow(2, bits) - 1)} :
                  bits \in BitWidths}
\* The int operands: every delta up to one beyond the widest Serial's limit,
\* and one beyond the ring.
Ints == {PyInt(v) : v \in (-Pow(2, MaxBits - 1)..Pow(2, MaxBits - 1))
                          \cup {Pow(2, MaxBits) + 1}}

InitSerial ==
    /\ NoRenderer
    /\ NoSets
    /\ NoImmutables
    /\ NoDdr
    /\ sa \in Serials
    /\ sb \in Serials \cup Ints
    /\ sres = [op |-> "none", ret |-> "None"]

\* sa == sb
SerialEq ==
    /\ sres' = [op |-> "==", ret |-> Expr("==", sa, sb)]
    /\ UNCHANGED <<sa, sb, RendererVars, SetVars, ImmutableVars, DdrVars>>

\* sa != sb
SerialNe ==
    /\ sres' = [op |-> "!=", ret |-> Expr("!=", sa, sb)]
    /\ UNCHANGED <<sa, sb, RendererVars, SetVars, ImmutableVars, DdrVars>>

\* sa < sb
SerialLt ==
    /\ sres' = [op |-> "<", ret |-> Expr("<", sa, sb)]
    /\ UNCHANGED <<sa, sb, RendererVars, SetVars, ImmutableVars, DdrVars>>

\* sa <= sb
SerialLe ==
    /\ sres' = [op |-> "<=", ret |-> Expr("<=", sa, sb)]
    /\ UNCHANGED <<sa, sb, RendererVars, SetVars, ImmutableVars, DdrVars>>

\* sa > sb
SerialGt ==
    /\ sres' = [op |-> ">", ret |-> Expr(">", sa, sb)]
    /\ UNCHANGED <<sa, sb, RendererVars, SetVars, ImmutableVars, DdrVars>>

\* sa >= sb
SerialGe ==
    /\ sres' = [op |-> ">=", ret |-> Expr(">=", sa, sb)]
    /\ UNCHANGED <<sa, sb, RendererVars, SetVars, ImmutableVars, DdrVars>>

\* An arithmetic call on sa that returned r: sa is self after the call, and
\* the result records the exception and the object returned.
Arith(op, r) ==
    [op |-> op, ret |-> IF r.exc = "None" THEN "Serial" ELSE r.exc,
     new |-> r.ret]

\* sa + sb
SerialAdd ==
    /\ sres' = Arith("+", Serial__add__(sa, sb))
    /\ sa' = Serial__add__(sa, sb).self
    /\ UNCHANGED <<sb, RendererVars, SetVars, ImmutableVars, DdrVars>>

\* sa += sb
SerialIAdd ==
    /\ sres' = Arith("+=", Serial__iadd__(sa, sb))
    /\ sa' = Serial__iadd__(sa, sb).self
    /\ UNCHANGED <<sb, RendererVars, SetVars, ImmutableVars, DdrVars>>

\* sa - sb
SerialSub ==
    /\ sres' = Arith("-", Serial__sub__(sa, sb))
    /\ sa' = Serial__sub__(sa, sb).self
    /\ UNCHANGED <<sb, RendererVars, SetVars, ImmutableVars, DdrVars>>

\* sa -= sb
SerialISub ==
    /\ sres' = Arith("-=", Serial__isub__(sa, sb))
    /\ sa' = Serial__isub__(sa, sb).self
    /\ UNCHANGED <<sb, RendererVars, SetVars, ImmutableVars, DdrVars>>

NextSerial ==
    \/ SerialAdd
    \/ SerialIAdd
    \/ SerialSub
    \/ SerialISub
    \/ SerialEq
    \/ SerialNe
    \/ SerialLt
    \/ SerialLe
    \/ SerialGt
    \/ SerialGe

SpecSerial == InitSerial /\ [][NextSerial]_vars

(***************************************************************************)
(* Properties of Serial.                                                   *)
(***************************************************************************)
SameWidth == is_serial(sb) /\ sb.bits = sa.bits
DifferentWidths == is_serial(sb) /\ sb.bits # sa.bits

\* (b.value - a.value) mod 2^bits
Distance(a, b) == (b.value - a.value) % Pow(2, a.bits)
Half(a) == Pow(2, a.bits - 1)
CircularLess(a, b) == 0 < Distance(a, b) /\ Distance(a, b) < Half(a)

\* C19: for two Serials of one width, a == b is the equality of the values,
\* a < b holds exactly when (b.value - a.value) mod 2^bits lies strictly
\* between 0 and 2^(bits-1), a > b exactly when b < a, a <= b exactly when
\* a == b or a < b, and a >= b exactly when a == b or a > b.
C19_CircularOrder ==
    SameWidth =>
        /\ sres.op = "==" => sres.ret = PyBool(sa.value = sb.value)
        /\ sres.op = "<" => sres.ret = PyBool(CircularLess(sa, sb))
        /\ sres.op = ">" => sres.ret = PyBool(CircularLess(sb, sa))
        /\ sres.op = ">" => sres.ret = Expr("<", sb, sa)
        /\ sres.op = "<=" =>
              sres.ret = PyBool(sa.value = sb.value \/ CircularLess(sa, sb))
        /\ sres.op = ">=" =>
              sres.ret = PyBool(sa.value = sb.value \/ CircularLess(sb, sa))

\* C19 witness: a < b was asked of two Serials of the widest width that are
\* exactly half the ring apart, and answered False.
C19_Witness ==
    /\ sres = [op |-> "<", ret |-> "False"]
    /\ SameWidth
    /\ sa.bits = MaxBits
    /\ sb.value > sa.value
    /\ Distance(sa, sb) = Half(sa)

\* C20 as claimed: a comparison of two Serials of different widths never
\* gives a true or false answer.
C20_NotComparable ==
    (DifferentWidths /\ sres.op # "none") => sres.ret \notin {"True", "False"}

\* C20 as amended: for two Serials of different widths the methods __eq__,
\* __ne__, __lt__ and __gt__ answer NotImplemented, whatever the values; the
\* expressions a < b, a <= b, a > b and a >= b raise TypeError, a == b is
\* False and a != b is True.
C20_DifferentWidths ==
    DifferentWidths =>
        /\ Serial__eq__(sa, sb) = "NotImplemented"
        /\ Serial__ne__(sa, sb) = "NotImplemented"
        /\ Serial__lt__(sa, sb) = "NotImplemented"
        /\ Serial__gt__(sa, sb) = "NotImplemented"
        /\ sres.op \in {"<", "<=", ">", ">="} => sres.ret = "TypeError"
        /\ sres.op = "==" => sres.ret = "False"
        /\ sres.op = "!=" => sres.ret = "True"

\* C20 witness: a == b was asked of two Serials of different widths and the
\* same value, and answered False.
C20_Witness ==
    /\ sres = [op |-> "==", ret |-> "False"]
    /\ DifferentWidths
    /\ sa.value = sb.value
    /\ sa.value > 0

ArithOps == {"+", "-", "+=", "-="}

\* The value s + d resp. s - d has on the ring.
Moved(s, op, d) ==
    IF op \in {"+", "+="} THEN (s.value + d) % Pow(2, s.bits)
    ELSE (s.value - d) % Pow(2, s.bits)

\* C21: for a Serial s and an int delta d with |d| <= 2^(bits-1) - 1, s + d
\* and s - d return a new Serial of s's width with the value
\* (s.value +/- d) mod 2^bits and leave s unchanged, and s += d and s -= d
\* set s.value to that value; for a larger |d| the call raises ValueError and
\* s is unchanged.  The value always lies in [0, 2^bits).
C21_BoundedDelta ==
    [][/\ (sres'.op \in ArithOps /\ sb.kind = "int") =>
             IF Abs(sb.value) <= Pow(2, sa.bits - 1) - 1
             THEN /\ sres'.ret = "Serial"
                  /\ sres'.new = [kind |-> "Serial", bits |-> sa.bits,
                                  value |-> Moved(sa, sres'.op, sb.value)]
                  /\ sa' = IF sres'.op \in {"+", "-"} THEN sa
                           ELSE [sa EXCEPT
                                     !.value = Moved(sa, sres'.op, sb.value)]
             ELSE sres'.ret = "ValueError" /\ sa' = sa
       /\ sa'.value \in 0..(Pow(2, sa'.bits) - 1)
       /\ sa'.bits = sa.bits]_vars

\* C21 witness: s -= d with the largest delta allowed took a Serial of the
\* widest width below zero and around the ring.
C21_Witness ==
    /\ sres.op = "-="
    /\ sres.ret = "Serial"
    /\ sb = PyInt(Pow(2, MaxBits - 1) - 1)
    /\ sa.bits = MaxBits
    /\ sa.value = Pow(2, MaxBits) - 1

\* A third of s's ring, rounded up.
Third(s) == (Pow(2, s.bits) + 2) \div 3

\* C22: the order is not transitive: for every Serial a, with b = a + third
\* and c = b + third, where third is a third of the ring, a < b, b < c and
\* c < a are all true.
C22_NotTransitive ==
    LET a == sa
        b == Serial__add__(a, PyInt(Third(a))).ret
        c == Serial__add__(b, PyInt(Third(a))).ret
    IN /\ Expr("<", a, b) = "True"
       /\ Expr("<", b, c) = "True"
       /\ Expr("<", c, a) = "True"
       /\ a.bits = b.bits /\ b.bits = c.bits

\* C22 witness: the edge that closes the cycle was asked of two Serials of the
\* widest width, two thirds of the ring and zero, and answered True.
C22_Witness ==
    /\ sres = [op |-> "<", ret |-> "True"]
    /\ SameWidth
    /\ sa.bits = MaxBits
    /\ sa.value = 2 * Third(sa)
    /\ sb.value = 0

\* How many of the answers are "True".
Trues(answers) == Cardinality({i \in DOMAIN answers : answers[i] = "True"})

\* C34: for two Serials a and b of one width at most one of a < b, a == b,
\* a > b is true, and a < b and b < a are never both true; exactly one of
\* the three is true unless the values are exactly 2^(bits-1) apart, and
\* then none of a < b, a > b, a == b, a <= b, a >= b is true.
C34_Trichotomy ==
    SameWidth =>
        LET lt == Expr("<", sa, sb)
            eq == Expr("==", sa, sb)
            gt == Expr(">", sa, sb)
            apart == Abs(sa.value - sb.value) = Pow(2, sa.bits - 1)
        IN /\ Trues(<<lt, eq, gt>>) <= 1
           /\ Trues(<<lt, Expr("<", sb, sa)>>) <= 1
           /\ ~apart => Trues(<<lt, eq, gt>>) = 1
           /\ apart => Trues(<<lt, eq, gt, Expr("<=", sa, sb),
                               Expr(">=", sa, sb)>>) = 0

\* C34 witness: a >= b was asked of two Serials of the widest width that are
\* exactly half the ring apart, a being the larger value, and answered False.
C34_Witness ==
    /\ sres = [op |-> ">=", ret |-> "False"]
    /\ SameWidth
    /\ sa.bits = MaxBits
    /\ sa.value - sb.value = Pow(2, MaxBits - 1)

\* C35: for every Serial s and every int d with 0 < d <= 2^(bits-1) - 1,
\* s + d > s and s - d < s are true, also when the value wraps around, and
\* (s + d) - d == s.
C35_AddThenGreater ==
    \A d \in 1..(Pow(2, sa.bits - 1) - 1) :
        LET plus == Serial__add__(sa, PyInt(d))
            minus == Serial__sub__(sa, PyInt(d))
            back == Serial__sub__(plus.ret, PyInt(d))
        IN /\ plus.exc = "None" /\ minus.exc = "None" /\ back.exc = "None"
           /\ Expr(">", plus.ret, sa) = "True"
           /\ Expr("<", minus.ret, sa) = "True"
           /\ Expr("==", back.ret, sa) = "True"

\* C35 witness: s + d with the largest d allowed took a Serial of the widest
\* width from the top of the ring around to a smaller value.
C35_Witness ==
    /\ sres.op = "+"
    /\ sres.ret = "Serial"
    /\ sb = PyInt(Pow(2, MaxBits - 1) - 1)
    /\ sa = Serial(Pow(2, MaxBits) - 1, MaxBits)
    /\ sres.new = Serial(Pow(2, MaxBits - 1) - 2, MaxBits)

(***************************************************************************)
(* dns._immutable_ctx: objects of a class decorated with @immutable.  Each *)
(* object has one attribute; the class's __init__ and __setstate__ are     *)
(* wrapped by _immutable_init, and everything runs in one context.         *)
(***************************************************************************)
Objects == 1..MaxObjects
Values == {"v1", "v2"}
Unset == "unset"
Initializers == {"__init__", "__setstate__"}

\* _Immutable.__setattr__(name, value), with in_init the value of
\* _in__init__.get()
__setattr__(a, in_init, self, value) ==
    IF in_init # self THEN [exc |-> "TypeError", attrs |-> a]
    ELSE [exc |-> "None", attrs |-> [a EXCEPT ![self] = value]]

\* _Immutable.__delattr__(name)
__delattr__(a, in_init, self) ==
    IF in_init # self THEN [exc |-> "TypeError", attrs |-> a]
    ELSE IF a[self] = Unset THEN [exc |-> "AttributeError", attrs |-> a]
    ELSE [exc |-> "None", attrs |-> [a EXCEPT ![self] = Unset]]

\* nf, on entry: previous = _in__init__.set(_self)
_immutable_init_enter(in_init, self) == [var |-> self, previous |-> in_init]

\* An nf that resets _in__init__ only when the initializer returns.
_immutable_init_exit_on_return(in_init, previous, raised) ==
    IF raised THEN in_init ELSE previous

\* An nf that clears _in__init__ on the way out instead of resetting it.
_immutable_init_exit_clears(in_init, previous, raised) == NotInInit

\* nf, on the way out, whether the initializer returned or raised:
\* _in__init__.reset(previous)
_immutable_init_exit(in_init, previous, raised) == previous

InitImmutable ==
    /\ NoRenderer
    /\ NoSets
    /\ NoSerials
    /\ NoDdr
    /\ attrs = [o \in Objects |-> Unset]
    /\ _in__init__ = NotInInit
    /\ calls = <<>>
    /\ ilast = [op |-> "none", obj |-> 0, exc |-> "None"]
    /\ ctxvars = <<>>
    /\ ctxcalls = <<>>

\* obj.__init__(...) or obj.__setstate__(...) is called: from outside, or by
\* the initializer that is running.
ImmutableEnter ==
    \E o \in Objects, f \in Initializers :
        /\ Len(calls) < MaxDepth
        /\ calls' = Append(calls,
                           [self |-> o, f |-> f,
                            previous |->
                                _immutable_init_enter(_in__init__, o).previous])
        /\ _in__init__' = _immutable_init_enter(_in__init__, o).var
        /\ ilast' = [op |-> f, obj |-> o, exc |-> "None"]
        /\ UNCHANGED <<attrs, ContextVars, RendererVars, SetVars, SerialVars, DdrVars>>

\* The innermost initializer returns.
ImmutableReturn ==
    /\ calls # <<>>
    /\ _in__init__' = _immutable_init_exit(_in__init__,
                                           calls[Len(calls)].previous, FALSE)
    /\ calls' = SubSeq(calls, 1, Len(calls) - 1)
    /\ ilast' = [op |-> "return", obj |-> calls[Len(calls)].self,
                 exc |-> "None"]
    /\ UNCHANGED <<attrs, ContextVars, RendererVars, SetVars, SerialVars, DdrVars>>

\* The innermost initializer raises, and its caller catches the exception.
ImmutableRaise ==
    /\ calls # <<>>
    /\ _in__init__' = _immutable_init_exit(_in__init__,
                                           calls[Len(calls)].previous, TRUE)
    /\ calls' = SubSeq(calls, 1, Len(calls) - 1)
    /\ ilast' = [op |-> "raise", obj |-> calls[Len(calls)].self,
                 exc |-> "Exception"]
    /\ UNCHANGED <<attrs, ContextVars, RendererVars, SetVars, SerialVars, DdrVars>>

\* obj.name = value, by the running initializer or from outside.
ImmutableSetattr ==
    \E o \in Objects, v \in Values :
        /\ attrs' = __setattr__(attrs, _in__init__, o, v).attrs
        /\ ilast' = [op |-> "setattr", obj |-> o,
                     exc |-> __setattr__(attrs, _in__init__, o, v).exc]
        /\ UNCHANGED <<_in__init__, calls, ContextVars, RendererVars, SetVars,
                       SerialVars, DdrVars>>

\* del obj.name
ImmutableDelattr ==
    \E o \in Objects :
        /\ attrs' = __delattr__(attrs, _in__init__, o).attrs
        /\ ilast' = [op |-> "delattr", obj |-> o,
                     exc |-> __delattr__(attrs, _in__init__, o).exc]
        /\ UNCHANGED <<_in__init__, calls, ContextVars, RendererVars, SetVars,
                       SerialVars, DdrVars>>

NextImmutable ==
    \/ ImmutableEnter
    \/ ImmutableReturn
    \/ ImmutableRaise
    \/ ImmutableSetattr
    \/ ImmutableDelattr

SpecImmutable == InitImmutable /\ [][NextImmutable]_vars

(***************************************************************************)
(* Properties of @immutable.                                               *)
(***************************************************************************)
\* The innermost initializer running is o's own.
InOwnInit(o) == calls # <<>> /\ calls[Len(calls)].self = o

C36_MarkerRestored ==
    [][ilast'.op \in {"return", "raise"} =>
         /\ _in__init__' = calls[Len(calls)].previous
         /\ calls' = SubSeq(calls, 1, Len(calls) - 1)
         /\ attrs' = attrs
         /\ IF calls' # <<>>
            THEN /\ _in__init__' = calls'[Len(calls')].self
                 /\ \A v \in Values :
                       __setattr__(attrs', _in__init__',
                                   calls'[Len(calls')].self, v).exc = "None"
            ELSE /\ _in__init__' = NotInInit
                 /\ \A o \in Objects, v \in Values :
                       /\ __setattr__(attrs', _in__init__', o, v).exc
                            = "TypeError"
                       /\ __delattr__(attrs', _in__init__', o).exc
                            = "TypeError"]_vars

\* C36 witness: inside the initializer of one object the initializer of
\* another set that object's attribute and then raised; the first object's
\* initializer is the one running again.
C36_Witness ==
    /\ ilast.op = "raise"
    /\ Len(calls) = 1
    /\ calls[1].self # ilast.obj
    /\ attrs[ilast.obj] = "v2"
    /\ attrs[calls[1].self] = Unset
    /\ _in__init__ = calls[1].self

(***************************************************************************)
(* Execution contexts.  _in__init__ is a contextvars.ContextVar: each      *)
(* thread and each task has a context of its own, and the variable's       *)
(* value there.  The main context exists from the start; a second one is   *)
(* started at any time, a thread with an empty context or a task (or a     *)
(* thread that inherits its context) with a copy of the context of its     *)
(* creator as it is then.  The objects are shared by the contexts.         *)
(***************************************************************************)
MainContext == "main"
OtherContext == "other"
ExecutionContexts == {MainContext, OtherContext}
NotStarted == -1

InitContexts ==
    /\ NoRenderer
    /\ NoSets
    /\ NoSerials
    /\ NoDdr
    /\ attrs = [o \in Objects |-> Unset]
    /\ _in__init__ = NotInInit
    /\ calls = <<>>
    /\ ilast = [op |-> "none", obj |-> 0, exc |-> "None", context |-> MainContext]
    /\ ctxvars = [c \in ExecutionContexts |->
                    IF c = MainContext THEN NotInInit ELSE NotStarted]
    /\ ctxcalls = [c \in ExecutionContexts |-> <<>>]

\* threading.Thread(...).start() with an empty context, where the variable
\* has its default, or asyncio.create_task(...) / contextvars.copy_context(),
\* where it has the value it has in the creating context.
ContextStart ==
    \E inherits \in BOOLEAN :
        /\ ctxvars[OtherContext] = NotStarted
        /\ ctxvars' = [ctxvars EXCEPT ![OtherContext] =
                          IF inherits THEN ctxvars[MainContext] ELSE NotInInit]
        /\ ilast' = [op |-> "start", obj |-> 0, exc |-> "None",
                     context |-> OtherContext]
        /\ UNCHANGED <<attrs, _in__init__, calls, ctxcalls, RendererVars,
                       SetVars, SerialVars, DdrVars>>

\* obj.__init__(...) or obj.__setstate__(...) is called in context c.
ContextEnter ==
    \E c \in ExecutionContexts, o \in Objects, f \in Initializers :
        /\ ctxvars[c] # NotStarted
        /\ Len(ctxcalls[c]) < MaxDepth
        /\ ctxcalls' = [ctxcalls EXCEPT ![c] =
                           Append(@, [self |-> o, f |-> f,
                                      previous |->
                                        _immutable_init_enter(ctxvars[c], o).previous])]
        /\ ctxvars' = [ctxvars EXCEPT ![c] =
                          _immutable_init_enter(ctxvars[c], o).var]
        /\ ilast' = [op |-> f, obj |-> o, exc |-> "None", context |-> c]
        /\ UNCHANGED <<attrs, _in__init__, calls, RendererVars, SetVars,
                       SerialVars, DdrVars>>

\* The innermost initializer of context c returns or raises.
ContextExit ==
    \E c \in ExecutionContexts, raised \in BOOLEAN :
        /\ ctxcalls[c] # <<>>
        /\ ctxvars' = [ctxvars EXCEPT ![c] =
                          _immutable_init_exit(ctxvars[c],
                                               ctxcalls[c][Len(ctxcalls[c])].previous,
                                               raised)]
        /\ ctxcalls' = [ctxcalls EXCEPT ![c] = SubSeq(@, 1, Len(@) - 1)]
        /\ ilast' = [op |-> IF raised THEN "raise" ELSE "return",
                     obj |-> ctxcalls[c][Len(ctxcalls[c])].self,
                     exc |-> IF raised THEN "Exception" ELSE "None",
                     context |-> c]
        /\ UNCHANGED <<attrs, _in__init__, calls, RendererVars, SetVars,
                       SerialVars, DdrVars>>

\* obj.name = value in context c.
ContextSetattr ==
    \E c \in ExecutionContexts, o \in Objects, v \in Values :
        /\ ctxvars[c] # NotStarted
        /\ attrs' = __setattr__(attrs, ctxvars[c], o, v).attrs
        /\ ilast' = [op |-> "setattr", obj |-> o,
                     exc |-> __setattr__(attrs, ctxvars[c], o, v).exc,
                     context |-> c]
        /\ UNCHANGED <<_in__init__, calls, ContextVars, RendererVars, SetVars,
                       SerialVars, DdrVars>>

\* del obj.name in context c.
ContextDelattr ==
    \E c \in ExecutionContexts, o \in Objects :
        /\ ctxvars[c] # NotStarted
        /\ attrs' = __delattr__(attrs, ctxvars[c], o).attrs
        /\ ilast' = [op |-> "delattr", obj |-> o,
                     exc |-> __delattr__(attrs, ctxvars[c], o).exc,
                     context |-> c]
        /\ UNCHANGED <<_in__init__, calls, ContextVars, RendererVars, SetVars,
                       SerialVars, DdrVars>>

NextContexts ==
    \/ ContextStart
    \/ ContextEnter
    \/ ContextExit
    \/ ContextSetattr
    \/ ContextDelattr

SpecContexts == InitContexts /\ [][NextContexts]_vars

\* An initializer of o is running in context c.
Initializing(c, o) ==
    \E k \in 1..Len(ctxcalls[c]) : ctxcalls[c][k].self = o

\* C37: _in__init__ is per execution context.  While a context is inside
\* o's initializer, obj.name = value and del obj.name from another context,
\* one that is not inside an initializer of o itself, raise TypeError and
\* change nothing; and an initializer that starts or exits in one context
\* leaves the value of _in__init__ in the other as it was.
C37_PerContextWindow ==
    [][/\ (/\ ilast'.op \in {"setattr", "delattr"}
           /\ ~Initializing(ilast'.context, ilast'.obj)
           /\ \E c \in ExecutionContexts \ {ilast'.context} :
                 Initializing(c, ilast'.obj))
          => (ilast'.exc = "TypeError" /\ attrs' = attrs)
       /\ ilast'.op \in (Initializers \cup {"return", "raise"}) =>
             \A c \in ExecutionContexts \ {ilast'.context} :
                 ctxvars'[c] = ctxvars[c]]_vars

\* C37 witness: while the main context is inside an object's initializer,
\* the other context, which is inside no initializer, assigned to the
\* object's attribute, and the assignment went through.
C37_Witness ==
    /\ ilast.op = "setattr"
    /\ ilast.context = OtherContext
    /\ ilast.exc = "None"
    /\ ctxcalls[OtherContext] = <<>>
    /\ Len(ctxcalls[MainContext]) = 1
    /\ ctxcalls[MainContext][1].self = ilast.obj
    /\ attrs[ilast.obj] = "v1"


(***************************************************************************)
(* dns._ddr._extract_nameservers_from_svcb.  An answer is the address of   *)
(* the nameserver that gave it and the SVCB records of its rrset in        *)
(* processing order; a record is its target and its params, of which       *)
(* present are the keys it has.  A DoH path is a sequence of pieces, so    *)
(* that its first and last piece can be told.                              *)
(***************************************************************************)
ALPN == "alpn"
PORT == "port"
DOHPATH == "dohpath"
ParamKeys == {ALPN, PORT, DOHPATH}
\* port = None
NoPort == -1
DefaultDoHPort == 443
DefaultDoTPort == 853
DnsTemplate == "{?dns}"

\* rr.params.get(key) is None
IsNone(rr, key) == key \notin rr.params.present

\* dns.inet.is_address(text)
is_address(text) == text \in {"192.0.2.53"}

\* dns.nameserver.DoHNameserver(url, bootstrap_address); the url is
\* f"https://{host}:{port}{path}"
DoHNameserver(host, port, path, bootstrap_address) ==
    [kind |-> "DoH",
     url |-> [scheme |-> "https", host |-> host, port |-> port, path |-> path],
     bootstrap_address |-> bootstrap_address]

\* dns.nameserver.DoTNameserver(address, port, hostname)
DoTNameserver(address, port, hostname) ==
    [kind |-> "DoT", address |-> address, port |-> port, hostname |-> hostname]

\* dns.nameserver.DoQNameserver(address, port, verify, server_hostname)
DoQNameserver(address, port, verify, server_hostname) ==
    [kind |-> "DoQ", address |-> address, port |-> port, verify |-> verify,
     server_hostname |-> server_hostname]

\* _SVCBInfo(bootstrap_address, port, hostname, nameservers)
_SVCBInfo(bootstrap_address, port, hostname, nameservers) ==
    [bootstrap_address |-> bootstrap_address, port |-> port,
     hostname |-> hostname, nameservers |-> nameservers]

\* The body of the loop for one record: the list infos after it.  The local
\* variable port is assigned by the first protocol that finds it None and
\* is read, as it then is, by the ones after it.
ExtractRecord(rr, bootstrap_address, sofar) ==
    IF IsNone(rr, ALPN) THEN sofar
    ELSE
    LET alpns == rr.params.alpn
        host == rr.target
        port0 == IF IsNone(rr, PORT) THEN NoPort ELSE rr.params.port
        value == rr.params.dohpath
        h2 == "h2" \in alpns
        stripped == SubSeq(value, 1, Len(value) - 1)
        path == IF stripped # <<>> /\ Head(stripped) = "/" THEN stripped
                ELSE <<"/">> \o stripped
        port1 == IF h2 /\ port0 = NoPort THEN DefaultDoHPort ELSE port0
        ns1 == IF h2
               THEN <<DoHNameserver(host, port1, path, bootstrap_address)>>
               ELSE <<>>
        dot == "dot" \in alpns
        port2 == IF dot /\ port1 = NoPort THEN DefaultDoTPort ELSE port1
        ns2 == IF dot
               THEN Append(ns1, DoTNameserver(bootstrap_address, port2, host))
               ELSE ns1
        doq == "doq" \in alpns
        port3 == IF doq /\ port2 = NoPort THEN DefaultDoTPort ELSE port2
        ns3 == IF doq
               THEN Append(ns2, DoQNameserver(bootstrap_address, port3, TRUE,
                                              host))
               ELSE ns2
    IN IF h2 /\ (IsNone(rr, DOHPATH) \/ value = <<>>
                 \/ value[Len(value)] # DnsTemplate)
       THEN sofar
       ELSE IF Len(ns3) > 0
       THEN Append(sofar, _SVCBInfo(bootstrap_address, port3, host, ns3))
       ELSE sofar

\* for rr in answer.rrset.processing_order(): ...
RECURSIVE ExtractEach(_, _, _)
ExtractEach(pending, bootstrap_address, sofar) ==
    IF pending = <<>> THEN sofar
    ELSE ExtractEach(Tail(pending), bootstrap_address,
                     ExtractRecord(Head(pending), bootstrap_address, sofar))

\* _extract_nameservers_from_svcb(answer)
_extract_nameservers_from_svcb(a) ==
    IF ~is_address(a.nameserver) THEN <<>>
    ELSE ExtractEach(a.rrset, a.nameserver, <<>>)

\* The answers callers pass: from an address or from a host name, with one
\* or two records; a record has or lacks each param, lists any of the ALPN
\* ids, and has a DoH path with or without the leading slash and the
\* template at its end.
AlpnIds == {"h2", "dot", "doq"}
Ports == {853, 8443}
DohPaths == {<<"/", "dns-query", DnsTemplate>>, <<"dns-query", DnsTemplate>>,
             <<"/", "dns-query">>}
ParamSets ==
    {ps \in [present : SUBSET ParamKeys, alpn : SUBSET AlpnIds,
             port : Ports \cup {NoPort}, dohpath : DohPaths \cup {<<>>}] :
        /\ (ALPN \in ps.present) \/ ps.alpn = {}
        /\ (PORT \in ps.present) <=> ps.port # NoPort
        /\ (DOHPATH \in ps.present) <=> ps.dohpath # <<>>}
SvcbRecords == [target : {"dns.example"}, params : ParamSets]
Nameservers == {"192.0.2.53", "resolver.example"}
Answers ==
    [nameserver : Nameservers,
     rrset : {<<rr>> : rr \in SvcbRecords}
             \cup {<<r1, r2>> : r1 \in {rr \in SvcbRecords :
                                          rr.params.alpn = {"dot"}},
                                r2 \in SvcbRecords}]

InitDdr ==
    /\ NoRenderer
    /\ NoSets
    /\ NoSerials
    /\ NoImmutables
    /\ answer \in Answers
    /\ infos = [returned |-> FALSE, list |-> <<>>]

\* infos = _extract_nameservers_from_svcb(answer)
ExtractNameservers ==
    /\ ~infos.returned
    /\ infos' = [returned |-> TRUE,
                 list |-> _extract_nameservers_from_svcb(answer)]
    /\ UNCHANGED <<answer, RendererVars, SetVars, SerialVars, ImmutableVars>>

NextDdr == ExtractNameservers

SpecDdr == InitDdr /\ [][NextDdr]_vars

(***************************************************************************)
(* Properties of _extract_nameservers_from_svcb.                           *)
(***************************************************************************)
\* The nameservers of the infos returned.
Derived ==
    UNION {{infos.list[i].nameservers[k] :
              k \in 1..Len(infos.list[i].nameservers)} :
           i \in 1..Len(infos.list)}

\* The port a nameserver connects to.
PortOf(ns) == IF ns.kind = "DoH" THEN ns.url.port ELSE ns.port

\* C40: when no record of the answer has a port param, every DoH
\* nameserver derived from it uses port 443 and every DoT and DoQ nameserver
\* port 853, whichever of h2, dot and doq the records list; when the
\* records have the port param p, every nameserver derived uses p.
C40_DefaultPorts ==
    infos.returned =>
        /\ (\A i \in 1..Len(answer.rrset) : IsNone(answer.rrset[i], PORT)) =>
              \A ns \in Derived :
                  PortOf(ns) = IF ns.kind = "DoH" THEN DefaultDoHPort
                               ELSE DefaultDoTPort
        /\ \A p \in Ports :
              (\A i \in 1..Len(answer.rrset) :
                   ~IsNone(answer.rrset[i], PORT)
                   /\ answer.rrset[i].params.port = p) =>
              \A ns \in Derived : PortOf(ns) = p

\* C40 witness: one record without a port param that lists h2 and dot and
\* has a DoH path gave a DoH nameserver on port 443 and a DoT nameserver on
\* port 443 as well.
C40_Witness ==
    /\ infos.returned
    /\ Len(answer.rrset) = 1
    /\ answer.rrset[1].params.present = {ALPN, DOHPATH}
    /\ answer.rrset[1].params.alpn = {"h2", "dot"}
    /\ Len(infos.list) = 1
    /\ infos.list[1].nameservers
         = <<DoHNameserver("dns.example", DefaultDoHPort, <<"/", "dns-query">>,
                           "192.0.2.53"),
             DoTNameserver("192.0.2.53", DefaultDoHPort, "dns.example")>>

====
